---- MODULE Spec2Model ----
(***************************************************************************)
(* Model of hyurl/goroutine: the main-side facade (go, go.start,           *)
(* go.terminate), the worker pool with its exit / replacement handlers,    *)
(* the pending-call table and the worker-side call-request handler.        *)
(*                                                                         *)
(* Scheduling: the main side is one cooperative event loop.  Every action  *)
(* is one uninterrupted run of a handler up to its next real suspension    *)
(* point (await adapter.fork, await of a response, await of terminate).    *)
(***************************************************************************)
EXTENDS Integers, Sequences, FiniteSets, TLC

\* ------------------------------------------------------------------ bounds
MaxSpawn == 3        \* workers ever forked (worker ids 1..MaxSpawn)
MaxCalls == 2        \* go() calls made by the program
MaxTime == 2         \* clock steps of StaleAfter \div 2 ms each
MaxStarts == 1       \* go.start() calls
MaxTerms == 1        \* go.terminate() calls
MaxWorkersOpt == 2   \* largest number in the `workers` option
MaxWorkerCalls == 2  \* facade calls made inside the workers, all together
MaxStray == 1        \* messages of other origin waiting on one channel

\* ------------------------------------------------------- program constants
StaleAfter == 1000   \* ms without TICK after which a worker counts as blocked
TickEvery == 100     \* ms between two TICKs of a worker

Wids == 1..MaxSpawn

\* ------------------------------------------------------------------ values
\* A JavaScript value is [t |-> type tag, v |-> payload]; the tag is
\* "string", "number", "null", "undefined", "object", "array", the name of
\* an Error type, "Map", "Date", "RegExp", "Uint8Array", "Buffer", or
\* "cyclic" for the object o = {foo: v} with o.bar = o.
Val(t, v) == [t |-> t, v |-> v]
Null == Val("null", "")
Undefined == Val("undefined", "")

\* typeof x
TypeOf(x) ==
  IF x.t \in {"string", "number", "undefined"} THEN x.t ELSE "object"

\* ToBoolean(x): null, undefined, "" and 0 are falsy
Truthy(x) ==
  /\ x.t \notin {"null", "undefined"}
  /\ ~(x.t = "string" /\ x.v = "")
  /\ ~(x.t = "number" /\ x.v \in {"0", "NaN"})

\* Error types by name: TypeError is one of the native error types that the
\* structured clone of the host knows, AssertionError is not.
ErrorNames == {"Error", "TypeError", "SyntaxError", "AssertionError"}
NativeErrorNames == {"Error", "TypeError", "SyntaxError"}
\* Objects and numbers that JSON cannot carry as they are
CodecTags == {"Map", "Date", "RegExp", "Uint8Array", "Buffer"}
SpecialNumbers == {"NaN", "Infinity", "-Infinity"}

\* The codec of the package @hyurl/structured-clone.  Wire form: [t, c, v],
\* t the type the transport sees, c the tag the codec put on it ("" for a
\* value sent as it is).
\* compose(x, useNativeClone): a cyclic object loses its back-references;
\* with useNativeClone the codec leaves Errors and the objects the
\* structured clone of the host can carry to the host, without it they
\* travel as tagged plain objects; everything else travels as itself.
compose(x, native) ==
  IF x.t = "cyclic" THEN [t |-> "object", c |-> "", v |-> x.v]
  ELSE IF native THEN [t |-> x.t, c |-> "", v |-> x.v]
  ELSE IF x.t \in ErrorNames \cup CodecTags THEN [t |-> "object", c |-> x.t, v |-> x.v]
  ELSE IF x.t = "number" /\ x.v \in SpecialNumbers
       THEN [t |-> "object", c |-> "Number", v |-> x.v]
  ELSE [t |-> x.t, c |-> "", v |-> x.v]

\* decompose(m): the inverse on the wire form
decompose(m) ==
  IF m.c = "Number" THEN Val("number", m.v)
  ELSE IF m.c # "" THEN Val(m.c, m.v)
  ELSE Val(m.t, m.v)

\* What the transport does to an array slot.  worker.send / process.send
\* (JSON over IPC): undefined, NaN and the infinities become null, and an
\* untagged Map, Date, RegExp, typed array or Error, or an object with a
\* cycle (which cannot be serialised at all) does not arrive as what it
\* was.  postMessage (structured clone of
\* the host): a Buffer arrives as a Uint8Array and an Error of a type that
\* is not native as a plain Error; everything else arrives as it is.
Transmit(ad, m) ==
  IF m.c # "" THEN m
  ELSE IF ad = "child_process"
  THEN IF m.t = "undefined" \/ (m.t = "number" /\ m.v \in SpecialNumbers)
       THEN [t |-> "null", c |-> "", v |-> ""]
       ELSE IF m.t \in ErrorNames \cup CodecTags \cup {"cyclic"}
       THEN [t |-> "object", c |-> "", v |-> ""]
       ELSE m
  ELSE IF m.t = "Buffer" THEN [m EXCEPT !.t = "Uint8Array"]
       ELSE IF m.t \in ErrorNames \ NativeErrorNames THEN [m EXCEPT !.t = "Error"]
       ELSE m

MalformedMsg == "Goroutine registry malformed, function call cannot be performed"

\* --------------------------------------------------------------- functions
\* The user functions of the program, named by their source text.
\*   sum, greeting            return a value
\*   throwError               throws new Error("Something went wrong")
\*   throwObject .. throwUndefined   throw a non-Error value
\*   drift / drift2           same registry slot, different source and hash
\*   coll / coll2             same registry slot, different source, same hash
\*   literal                  an unregistered function shipped as source text
\*   mathMax                  a built-in function, whose source text is
\*                            "function max() { [native code] }"
\*   transferCircular         returns o = {foo: "Hello, World"} with o.bar = o
\*   echo                     returns its argument
\* fn(...args), as an outcome: [k |-> "ok" | "throw", val |-> value]
Apply(fn, arg) ==
  CASE fn = "throwError" -> [k |-> "throw", val |-> Val("Error", "Something went wrong")]
    [] fn = "throwObject" -> [k |-> "throw", val |-> Val("object", "code")]
    [] fn = "throwString" -> [k |-> "throw", val |-> Val("string", "boom")]
    [] fn = "throwNumber" -> [k |-> "throw", val |-> Val("number", "42")]
    [] fn = "throwNull" -> [k |-> "throw", val |-> Null]
    [] fn = "throwUndefined" -> [k |-> "throw", val |-> Undefined]
    [] fn = "greeting" -> [k |-> "ok", val |-> Val("string", "Hello, World!")]
    [] fn = "transferCircular" -> [k |-> "ok", val |-> Val("cyclic", "Hello, World")]
    [] OTHER -> [k |-> "ok", val |-> arg]

\* hash(String(fn)): string-hash, a 32-bit hash of the source text.  It is
\* not injective: coll and coll2 stand for two sources with one hash.
hash(fn) ==
  CASE fn = "sum" -> 11
    [] fn = "greeting" -> 12
    [] fn = "throwError" -> 13
    [] fn = "throwObject" -> 14
    [] fn = "throwString" -> 15
    [] fn = "throwNumber" -> 16
    [] fn = "throwNull" -> 17
    [] fn = "throwUndefined" -> 18
    [] fn = "drift" -> 19
    [] fn = "drift2" -> 20
    [] fn = "coll" -> 21
    [] fn = "coll2" -> 21
    [] OTHER -> 22

\* Things a program may hand over where a function is expected:
\*   klass                    a class, its source starts with "class "
\*   num, obj, undef          a number, a plain object, undefined
\* typeof fn
TypeofFn(fn) ==
  CASE fn = "num" -> "number"
    [] fn = "obj" -> "object"
    [] fn = "undef" -> "undefined"
    [] OTHER -> "function"

\* String(fn).slice(0, 6) === "class "
SourceIsClass(fn) == fn = "klass"

\* Variant of isFunction that looks at typeof only.
isFunctionByTypeof(fn) == TypeofFn(fn) = "function"

\* isFunction(fn): part_003:434-436
isFunction(fn) == TypeofFn(fn) = "function" /\ ~SourceIsClass(fn)

\* The TypeError of ensureFunctionArg(name, fn): part_003:438-444
FunctionArgError(name, fn) ==
  LET type == IF TypeofFn(fn) = "function" THEN "class" ELSE TypeofFn(fn)
  IN  Val("TypeError", name \o "() requires a function, " \o type \o " is given")

\* The arguments of the calls, by name.
ArgVal(arg) ==
  CASE arg = "map" -> Val("Map", "foo=Hello,bar=World")
    [] arg = "date" -> Val("Date", "2020-02-02")
    [] arg = "regexp" -> Val("RegExp", "[a-zA-Z0-9]")
    [] arg = "bytes" -> Val("Uint8Array", "72,105")
    [] arg = "buffer" -> Val("Buffer", "72,105")
    [] arg = "nan" -> Val("number", "NaN")
    [] arg = "infinity" -> Val("number", "Infinity")
    [] arg = "typeError" -> Val("TypeError", "not a number")
    [] arg = "assertionError" -> Val("AssertionError", "1 == 2")
    [] arg = "cyclic" -> Val("cyclic", "Hello, World")
    [] OTHER -> Val("string", arg)

\* registry.indexOf(fn), 1-based here; 0 stands for -1 (not found)
IndexOf(reg, fn) ==
  IF \E i \in 1..Len(reg) : reg[i] = fn
  THEN CHOOSE i \in 1..Len(reg) : reg[i] = fn /\ \A j \in 1..(i - 1) : reg[j] # fn
  ELSE 0

\* The registry the main side builds, and the one every worker builds from
\* the same entry file: greeting is registered on the main side only, and two
\* slots hold a different function in the worker.
MainRegistry ==
  <<"sum", "throwError", "throwObject", "throwString", "throwNumber",
    "throwNull", "throwUndefined", "drift", "coll", "greeting">>
WorkerRegistry ==
  <<"sum", "throwError", "throwObject", "throwString", "throwNumber",
    "throwNull", "throwUndefined", "drift2", "coll2">>

\* ------------------------------------------------------------------- state
VARIABLES
  adapter,                 \* adapter.name of the module-level adapter, "null" before start
  isWorkerThreadsAdapter,  \* module-level flag, set by go.start()
  maxWorkers,              \* module-level maxWorkers
  loadBalanceMethod,       \* "unset" | "round-robin" | "least-time"
  workerOptions,           \* identity of the cached options object, 0 = null
  pool,                    \* sequence of worker ids
  lastTick,                \* worker[lastTick], per worker id
  now,                     \* Date.now()
  uids,                    \* the last value taken from the uid stream
  tasks,                   \* the pending table: set of <<uid, call>>
  noWorkerWarningEmitted,
  warnings,                \* number of process.emitWarning calls
  calls,                   \* the go() calls made so far and their promises; `early`
                           \* marks a call made while go.start() was still forking
  wk,                      \* per worker id: life-cycle state and fork closure;
                           \* `ready`: the worker has installed its message
                           \* handler and sent READY
  nspawn,                  \* number of adapter.fork calls so far
  inbox,                   \* per worker: Call Requests posted to it, not yet answered
  outbox,                  \* per worker: messages sent to the parent, in order
  invoked,                 \* <<uid, fn>>: functions invoked on the worker side
  startSt,                 \* the go.start() promise
  nstarts,                 \* number of go.start() calls
  terms,                   \* the go.terminate() promises
  registry,                \* the main side's registry of functions
  includes,                \* the roots recorded by go.use()
  collected,               \* the deferred collector (setImmediate) has run
  ticked,                  \* roots whose next scheduler tick has passed
  ret,                     \* outcome of the last register / use / workers call
  debugFlag,               \* the parent runs with --inspect, --inspect-brk or --debug
  nativeErrorCloneSupport, \* the structured clone of the host carries Errors
  execArgv,                \* per cached options object: debug flags pushed onto its
                           \* execArgv array on top of what go.start() put there
  wuids,                   \* per worker: the last value of the worker's own uid stream
  wtasks,                  \* per worker: the uids of the worker's own pending table
  wcalls,                  \* per worker: the facade calls made inside it
  replies,                 \* per worker: Call Responses the parent sent to it
  rt                       \* per worker: its timers, immediates and what it has emitted

mainVars == <<adapter, isWorkerThreadsAdapter, maxWorkers, loadBalanceMethod, workerOptions>>
poolVars == <<pool, lastTick>>
callVars == <<uids, tasks, calls, noWorkerWarningEmitted, warnings>>
chanVars == <<inbox, outbox, invoked>>
regVars == <<registry, includes, collected, ticked, ret>>
optVars == <<debugFlag, nativeErrorCloneSupport, execArgv>>
workVars == <<wuids, wtasks, wcalls, replies, rt>>
vars == <<mainVars, poolVars, callVars, chanVars, now, wk, nspawn, startSt, nstarts,
          terms, regVars, optVars, workVars>>

NoVal == Val("none", "")
NoRet == [op |-> "", arg |-> "", k |-> "", val |-> ""]
NoWorker ==
  [st |-> "none", ad |-> "", opts |-> 0, kind |-> "", call |-> 0,
   killed |-> FALSE, code |-> 0 - 1, sig |-> "", ready |-> FALSE,
   argv |-> 0 - 1]

OptIds == 1..MaxStarts

\* The runtime of a worker whose module has not been loaded yet.  phase is
\* where the worker is: "none", "loading" (the entry file still runs), or
\* the phase of the event loop it is about to run, "timers" or "check".
NoRuntime ==
  [phase |-> "none", immediate |-> FALSE, loaded |-> 0, due |-> 0, readys |-> 0,
   ticks |-> 0, first |-> "", last |-> 0 - 1]

\* The state of the module once loaded on the main side (part_003:24-47).
Loaded ==
  /\ adapter = "null"
  /\ isWorkerThreadsAdapter = FALSE
  /\ maxWorkers = 1
  /\ loadBalanceMethod = "unset"
  /\ workerOptions = 0
  /\ pool = <<>>
  /\ lastTick = [w \in Wids |-> 0]
  /\ now = 0
  /\ uids = 0 - 1
  /\ tasks = {}
  /\ noWorkerWarningEmitted = FALSE
  /\ warnings = 0
  /\ calls = <<>>
  /\ wk = [w \in Wids |-> NoWorker]
  /\ nspawn = 0
  /\ inbox = [w \in Wids |-> {}]
  /\ outbox = [w \in Wids |-> <<>>]
  /\ invoked = {}
  /\ startSt = [st |-> "none", wait |-> {}, min |-> 0, max |-> 0,
                dyn |-> FALSE, method |-> "", err |-> ""]
  /\ nstarts = 0
  /\ terms = <<>>
  /\ execArgv = [id \in OptIds |-> 0]
  /\ wuids = [w \in Wids |-> 0 - 1]
  /\ wtasks = [w \in Wids |-> {}]
  /\ wcalls = [w \in Wids |-> <<>>]
  /\ replies = [w \in Wids |-> <<>>]
  /\ rt = [w \in Wids |-> NoRuntime]

\* A program whose entry file has registered its functions one by one, once
\* the first scheduler tick has passed.
Init ==
  /\ Loaded
  /\ registry = MainRegistry
  /\ includes = <<>>
  /\ collected = TRUE
  /\ ticked = {}
  /\ ret = NoRet
  /\ debugFlag = FALSE
  /\ nativeErrorCloneSupport = FALSE

\* The same program after it has run a pool on the thread transport and
\* terminated it (go.start({workers: 1}), go.terminate(), the worker's exit
\* processed): the pool is empty again and the module-level variables that
\* go.start() assigns are as that start left them (part_003:212-231); no
\* call is pending.  Spawns, calls and starts are counted from here.
InitRestarted ==
  /\ adapter = "worker_threads"
  /\ isWorkerThreadsAdapter = TRUE
  /\ maxWorkers = 1
  /\ loadBalanceMethod = "round-robin"
  /\ workerOptions = 0
  /\ pool = <<>>
  /\ lastTick = [w \in Wids |-> 0]
  /\ now = 0
  /\ uids = 0 - 1
  /\ tasks = {}
  /\ noWorkerWarningEmitted = FALSE
  /\ warnings = 0
  /\ calls = <<>>
  /\ wk = [w \in Wids |-> NoWorker]
  /\ nspawn = 0
  /\ inbox = [w \in Wids |-> {}]
  /\ outbox = [w \in Wids |-> <<>>]
  /\ invoked = {}
  /\ startSt = [st |-> "none", wait |-> {}, min |-> 0, max |-> 0,
                dyn |-> FALSE, method |-> "", err |-> ""]
  /\ nstarts = 0
  /\ terms = <<>>
  /\ execArgv = [id \in OptIds |-> 0]
  /\ wuids = [w \in Wids |-> 0 - 1]
  /\ wtasks = [w \in Wids |-> {}]
  /\ wcalls = [w \in Wids |-> <<>>]
  /\ replies = [w \in Wids |-> <<>>]
  /\ rt = [w \in Wids |-> NoRuntime]
  /\ registry = MainRegistry
  /\ includes = <<>>
  /\ collected = TRUE
  /\ ticked = {}
  /\ ret = NoRet
  /\ debugFlag = FALSE
  /\ nativeErrorCloneSupport = FALSE

\* The same program, run with or without a debug flag on the command line
\* of the parent (child_process.ts:66-67).
InitOptions ==
  /\ Loaded
  /\ registry = MainRegistry
  /\ includes = <<>>
  /\ collected = TRUE
  /\ ticked = {}
  /\ ret = NoRet
  /\ debugFlag \in BOOLEAN
  /\ nativeErrorCloneSupport = FALSE

\* The same program on a host with or without the native clone of Errors
\* (part_003:22).
InitCodec ==
  /\ Loaded
  /\ registry = MainRegistry
  /\ includes = <<>>
  /\ collected = TRUE
  /\ ticked = {}
  /\ ret = NoRet
  /\ debugFlag = FALSE
  /\ nativeErrorCloneSupport \in BOOLEAN

\* The module as loaded, before the entry file has registered anything and
\* before the first scheduler tick (part_003:25-26, 469).
InitLoad ==
  /\ Loaded
  /\ registry = <<>>
  /\ includes = <<>>
  /\ collected = FALSE
  /\ ticked = {}
  /\ ret = NoRet
  /\ debugFlag = FALSE
  /\ nativeErrorCloneSupport = FALSE

\* ------------------------------------------------------------ pool helpers
\* Variant of useNativeClone that is set whatever the transport.
useNativeCloneAlways == TRUE

\* useNativeClone on the main side (part_003:81, 229-231)
useNativeClone == isWorkerThreadsAdapter /\ nativeErrorCloneSupport

PoolSet == {pool[i] : i \in 1..Len(pool)}
Spawning == {w \in Wids : wk[w].st = "spawning"}

\* Variant of PoolIndexOf that never finds the worker.
PoolIndexOfMissing(w) == 0

\* pool.indexOf(worker), 1-based; 0 stands for -1
PoolIndexOf(w) ==
  IF w \in PoolSet THEN CHOOSE i \in 1..Len(pool) : pool[i] = w ELSE 0

\* pool.splice(index, 1): a negative index counts from the end, so
\* splice(-1, 1) removes the last element.
Splice(p, idx) ==
  LET i == IF idx = 0 THEN Len(p) ELSE idx
  IN  IF p = <<>> THEN p
      ELSE SubSeq(p, 1, i - 1) \o SubSeq(p, i + 1, Len(p))

\* Variant of MostRecent that takes the worker whose TICK is the oldest.
LeastRecent ==
  IF pool = <<>> THEN 0
  ELSE LET i == CHOOSE i \in 1..Len(pool) :
                  /\ \A j \in 1..Len(pool) : lastTick[pool[j]] >= lastTick[pool[i]]
                  /\ \A j \in 1..(i - 1) : lastTick[pool[j]] > lastTick[pool[i]]
       IN  pool[i]

\* orderBy(pool, lastTick, "desc")[0]: stable sort, so the first worker in
\* pool order among those with the largest lastTick; 0 stands for undefined.
MostRecent ==
  IF pool = <<>> THEN 0
  ELSE LET i == CHOOSE i \in 1..Len(pool) :
                  /\ \A j \in 1..Len(pool) : lastTick[pool[j]] <= lastTick[pool[i]]
                  /\ \A j \in 1..(i - 1) : lastTick[pool[j]] < lastTick[pool[i]]
       IN  pool[i]

\* Variant of isGoroutineRunning that asks whether the facade was ever
\* started instead of whether the pool holds a worker.
isGoroutineStarted == adapter # "null"

\* isGoroutineRunning: part_003:452-466 (the warning is emitted in GoCall)
isGoroutineRunning == pool # <<>>

\* Variant of isNormalExit that takes every thread exit code up to 1 as normal.
isNormalExitUpToOne(ad, code, signal) ==
  \/ (ad = "child_process" /\ signal = "SIGTERM")
  \/ (ad = "worker_threads" /\ code <= 1)

\* isNormalExit: part_003:414-417
isNormalExit(ad, code, signal) ==
  \/ (ad = "child_process" /\ signal = "SIGTERM")
  \/ (ad = "worker_threads" /\ code = 1)

\* Variant of ensureCallInMainThread that lets every thread through.
ensureCallAnywhere(isMain, name) == ""

\* ensureCallInMainThread(name) in a process whose isMainThread is isMain:
\* the message of the Error it throws, "" when it returns (part_003:446-450)
ensureCallInMainThread(isMain, name) ==
  IF isMain THEN ""
  ELSE "Calling " \o name \o "() in the worker thread is not allowed"

\* ------------------------------------------------------------ go.start()
\* The options a program may pass: workers = N is [dyn |-> FALSE, min = max = N],
\* workers = [min, max] is [dyn |-> TRUE, ...]; method "" and adapter "" stand
\* for an option left out.
StartOpts ==
  {[dyn |-> FALSE, min |-> n, max |-> n, method |-> m, adapter |-> a] :
     n \in 0..MaxWorkersOpt, m \in {"", "least-time"}, a \in {"", "child_process"}}
  \cup
  {[dyn |-> TRUE, min |-> lo, max |-> hi, method |-> m, adapter |-> a] :
     lo \in 0..MaxWorkersOpt, hi \in 1..MaxWorkersOpt,
     m \in {"", "round-robin"}, a \in {"", "child_process"}}

\* A fresh worker being forked by forkWorker(ad, filename, opts).
Forking(kind, c, ad, opts) ==
  [st |-> "spawning", ad |-> ad, opts |-> opts, kind |-> kind, call |-> c,
   killed |-> FALSE, code |-> 0 - 1, sig |-> "", ready |-> FALSE,
   argv |-> 0 - 1]

\* Variant of TooFew that lets a pool of no workers start.
TooFewNegative(o) == o.min < 0

\* if (minWorkers < 1): part_003:209
TooFew(o) == o.min < 1

\* Variant of MaxOf that takes the first number of a [min, max] pair.
MaxOfFirst(o) == o.min

\* maxWorkers = dynamicWorkers ? workers[1] : workers: part_003:213
MaxOf(o) == o.max

\* Variant of PolicyOf that ignores an explicit `method`.
PolicyOfWorkers(o) == IF o.dyn THEN "least-time" ELSE "round-robin"

\* The dispatch policy go.start() puts in force: part_003:216-220
PolicyOf(o) ==
  IF o.method # "" THEN o.method
  ELSE IF o.dyn THEN "least-time" ELSE "round-robin"

\* go.start(options): part_003:192-246.  With an explicit filename
\* resolveEntryFile does not leave the event-loop turn, so the body up to the
\* fan-out of forkWorker calls is one step.  The program waits for one start
\* before it calls the next.
GoStart(o) ==
  /\ ensureCallInMainThread(TRUE, "go.start") = ""
  /\ nstarts < MaxStarts
  /\ startSt.st # "forking"
  /\ nstarts' = nstarts + 1
  /\ IF TooFew(o)
     THEN /\ startSt' = [st |-> "rejected", wait |-> {}, min |-> o.min, max |-> o.max,
                         dyn |-> o.dyn, method |-> o.method, err |-> "RangeError"]
          /\ UNCHANGED <<mainVars, wk, nspawn>>
     ELSE LET ad == IF o.adapter = "child_process" THEN "child_process"
                    ELSE "worker_threads"
              new == (nspawn + 1)..(nspawn + o.min)
          IN  /\ nspawn + o.min <= MaxSpawn
              /\ maxWorkers' = MaxOf(o)
              /\ loadBalanceMethod' = PolicyOf(o)
              /\ adapter' = ad
              /\ isWorkerThreadsAdapter' =
                   (isWorkerThreadsAdapter \/ ad = "worker_threads")
              /\ workerOptions' = nstarts + 1
              /\ wk' = [w \in Wids |->
                         IF w \in new THEN Forking("start", 0, ad, nstarts + 1)
                         ELSE wk[w]]
              /\ nspawn' = nspawn + o.min
              /\ startSt' = [st |-> IF new = {} THEN "resolved" ELSE "forking",
                             wait |-> new, min |-> o.min, max |-> o.max,
                             dyn |-> o.dyn, method |-> o.method, err |-> ""]
  /\ UNCHANGED <<poolVars, callVars, chanVars, now, terms>>
  /\ UNCHANGED <<regVars, optVars, workVars>>

\* ------------------------------------------------------------------- go()
Args == {"a", "b"}

\* The Call Request of a call: part_003:145-150.  target 0 stands for a
\* target that is the source text, carried in `text`.
Request(uid, fn, arg) ==
  LET target == IndexOf(registry, fn)
  IN  [uid |-> uid, target |-> target,
       text |-> IF target = 0 THEN fn ELSE "",
       sig |-> hash(fn), args |-> compose(ArgVal(arg), useNativeClone)]

\* part_003:156-160: postMessage exists on a thread worker only, send on a
\* subprocess only; the branch is taken on the module-level flag.
CanPost(w) == (isWorkerThreadsAdapter <=> (wk[w].ad = "worker_threads"))

\* tasks.set(uid, {resolve, reject}) for call c
TasksSet(uid, c) == {t \in tasks : t[1] # uid} \cup {<<uid, c>>}

\* The executor of the promise go() returns (part_003:144-161), for call
\* record rec sent to worker w: the call's record afterwards.  A throw of
\* postMessage / send inside the executor rejects the promise.
Dispatched(rec, w) ==
  IF CanPost(w)
  THEN [rec EXCEPT !.st = "pending", !.w = w]
  ELSE [rec EXCEPT !.st = "rejected", !.w = 0,
                   !.out = Val("Error", "worker.postMessage is not a function")]

\* worker.postMessage(msg) / worker.send(msg): the request as it arrives
Arriving(ad, r) == [r EXCEPT !.args = Transmit(ad, @)]

Posted(rec, w) ==
  IF CanPost(w)
  THEN [inbox EXCEPT ![w] = @ \cup {Arriving(wk[w].ad, Request(rec.uid, rec.fn, rec.arg))}]
  ELSE inbox

\* Variant of Chosen whose round-robin counts calls two at a time.
ChosenByPairs(uid) ==
  IF loadBalanceMethod = "least-time" \/ Len(pool) < maxWorkers
  THEN MostRecent
  ELSE pool[((uid \div 2) % Len(pool)) + 1]

\* Variant of Chosen that still takes the most recent worker when the pool
\* is exactly at its maximum.
ChosenAboveMax(uid) ==
  IF loadBalanceMethod = "least-time" \/ Len(pool) <= maxWorkers
  THEN MostRecent
  ELSE pool[(uid % Len(pool)) + 1]

\* The worker go() picks before any scale-up: part_003:121-126.
Chosen(uid) ==
  IF loadBalanceMethod = "least-time" \/ Len(pool) < maxWorkers
  THEN MostRecent
  ELSE pool[(uid % Len(pool)) + 1]

\* Variant of NeedFork that takes a worker as blocked only after more than
\* StaleAfter ms.
NeedForkLater(worker) ==
  \/ worker = 0
  \/ (Len(pool) < maxWorkers /\ now - lastTick[worker] > StaleAfter)

\* part_003:138-140
NeedFork(worker) ==
  \/ worker = 0
  \/ (Len(pool) < maxWorkers /\ now - lastTick[worker] >= StaleAfter)

\* Variant of Warned that emits the warning on every call served locally.
WarnedEachTime(emitted, n) == n + 1

\* The number of warnings emitted once isGoroutineRunning() has found the
\* pool empty, n being the number before: part_003:453-460
Warned(emitted, n) == IF emitted THEN n ELSE n + 1

\* Variant of NextUid whose stream stops advancing after its first value.
NextUidStuck(u) == IF u < 0 THEN 0 ELSE u

\* uids.next().value of sequid(-1, true): part_003:28, 117
NextUid(u) == u + 1

\* go(fn, ...args) up to its first suspension point: part_003:106-162.
GoCall(fn, arg) ==
  /\ ensureCallInMainThread(TRUE, "go") = ""
  /\ Len(calls) < MaxCalls
  /\ LET c == Len(calls) + 1
     IN IF ~isFunction(fn)
        THEN /\ calls' = Append(calls,
                   [uid |-> 0 - 2, fn |-> fn, arg |-> arg, w |-> 0,
                    st |-> "rejected", out |-> FunctionArgError("go", fn),
                    early |-> (startSt.st = "forking")])
             /\ UNCHANGED <<uids, tasks, inbox, wk, nspawn,
                            noWorkerWarningEmitted, warnings>>
        ELSE IF ~isGoroutineRunning
        THEN LET r == Apply(fn, ArgVal(arg))
             IN  /\ calls' = Append(calls,
                       [uid |-> 0 - 1, fn |-> fn, arg |-> arg, w |-> 0,
                        st |-> IF r.k = "ok" THEN "resolved" ELSE "rejected",
                        out |-> r.val, early |-> (startSt.st = "forking")])
                 /\ noWorkerWarningEmitted' = TRUE
                 /\ warnings' = Warned(noWorkerWarningEmitted, warnings)
                 /\ UNCHANGED <<uids, tasks, inbox, wk, nspawn>>
        ELSE LET uid == NextUid(uids)
                 worker == Chosen(uid)
                 rec == [uid |-> uid, fn |-> fn, arg |-> arg, w |-> 0,
                         st |-> "fork", out |-> NoVal, early |-> (startSt.st = "forking")]
             IN  /\ uids' = uid
                 /\ UNCHANGED <<noWorkerWarningEmitted, warnings>>
                 /\ IF NeedFork(worker)
                    THEN /\ nspawn < MaxSpawn
                         /\ nspawn' = nspawn + 1
                         /\ wk' = [wk EXCEPT ![nspawn + 1] =
                                     Forking("go", c, adapter, workerOptions)]
                         /\ calls' = Append(calls, rec)
                         /\ UNCHANGED <<tasks, inbox>>
                    ELSE /\ calls' = Append(calls, Dispatched(rec, worker))
                         /\ tasks' = TasksSet(uid, c)
                         /\ inbox' = Posted(rec, worker)
                         /\ UNCHANGED <<wk, nspawn>>
  /\ UNCHANGED <<mainVars, poolVars, outbox, invoked, now, startSt, nstarts, terms>>
  /\ UNCHANGED <<regVars, optVars, workVars>>

\* ------------------------------------------------------------ forkWorker
\* adapter.fork on an options object whose execArgv array holds n debug
\* flags: the number it holds afterwards, which is what the new worker is
\* given.  The subprocess adapter pushes the debug flag of the parent onto
\* the array it was handed (child_process.ts:69-74, 102-104); the thread
\* adapter passes the array on as it is (part_008:15-17).
Pushed(ad, dbg, n) == IF ad = "child_process" /\ dbg THEN n + 1 ELSE n

\* Variant of ReadyAtFork in which no adapter waits for the first message.
ReadyAtForkNever(ad) == FALSE

\* Whether adapter.fork of adapter ad resolves only once the worker has sent
\* its first message: part_008:43 against child_process.ts:106-114.
ReadyAtFork(ad) == ad = "worker_threads"

\* adapter.fork has resolved for worker w: the rest of forkWorker
\* (part_003:389-411) and, in the same turn, the continuation of whoever
\* awaited it: go() after line 141, or the Promise.all of go.start().
\* The thread adapter resolves on the first message of the worker, which is
\* its READY (part_008:43, part_003:503); the subprocess adapter resolves
\* with the handle child_process.fork() returns, before the subprocess has
\* loaded anything (child_process.ts:106-114).
ForkDone(w) ==
  /\ wk[w].st = "spawning"
  /\ execArgv' = [execArgv EXCEPT ![wk[w].opts] = Pushed(wk[w].ad, debugFlag, @)]
  /\ wk' = [wk EXCEPT ![w].st = "alive",
                      ![w].ready = ReadyAtFork(wk[w].ad),
                      ![w].argv = execArgv'[wk[w].opts]]
  /\ pool' = Append(pool, w)
  /\ lastTick' = [lastTick EXCEPT ![w] = now]
  /\ IF wk[w].kind = "go"
     THEN LET c == wk[w].call
          IN  /\ calls' = [calls EXCEPT ![c] = Dispatched(calls[c], w)]
              /\ tasks' = TasksSet(calls[c].uid, c)
              /\ inbox' = Posted(calls[c], w)
     ELSE UNCHANGED <<calls, tasks, inbox>>
  /\ IF wk[w].kind = "start" /\ w \in startSt.wait
     THEN startSt' = [startSt EXCEPT
                        !.wait = @ \ {w},
                        !.st = IF startSt.wait = {w} /\ @ = "forking"
                               THEN "resolved" ELSE @]
     ELSE UNCHANGED startSt
  /\ UNCHANGED <<mainVars, uids, noWorkerWarningEmitted, warnings, outbox,
                 invoked, now, nspawn, nstarts, terms>>
  /\ UNCHANGED <<regVars, debugFlag, nativeErrorCloneSupport, workVars>>

\* A subprocess worker finishes loading the entry file: its message handler
\* is installed and READY is sent (part_003:493-503).  The main side does
\* nothing on READY (it is neither TICK nor a call message).  A thread
\* worker's READY is the message that resolves its fork, see ForkDone.
WorkerReady(w) ==
  /\ wk[w].st = "alive" /\ wk[w].ad = "child_process" /\ ~wk[w].ready
  /\ wk' = [wk EXCEPT ![w].ready = TRUE]
  /\ UNCHANGED <<mainVars, poolVars, callVars, chanVars, now, nspawn, startSt,
                 nstarts, terms>>
  /\ UNCHANGED <<regVars, optVars, workVars>>

\* Variant of SpawnError in which the failed spawn is not reported to the
\* go() call that awaits it.
SpawnErrorSwallowed(w) ==
  /\ wk[w].st = "spawning" /\ wk[w].ad = "worker_threads"
  /\ wk' = [wk EXCEPT ![w].st = "failed"]
  /\ IF wk[w].kind = "start" /\ w \in startSt.wait
     THEN startSt' = [startSt EXCEPT
                        !.wait = @ \ {w},
                        !.st = IF @ = "forking" THEN "rejected" ELSE @,
                        !.err = IF startSt.st = "forking" THEN "Error" ELSE @]
     ELSE UNCHANGED startSt
  /\ UNCHANGED <<mainVars, poolVars, callVars, chanVars, now, nspawn, nstarts,
                 terms>>
  /\ UNCHANGED <<regVars, optVars, workVars>>

\* A thread worker emits "error" before its first message (the entry file
\* throws while loading): the promise of adapter.fork rejects (part_008:44),
\* so forkWorker rejects before pool.push, and so does whoever awaits it:
\* go() at part_003:141, Promise.all of go.start() at part_003:243.  The
\* rejection of a replacement fork is awaited by nobody.
SpawnError(w) ==
  /\ wk[w].st = "spawning" /\ wk[w].ad = "worker_threads"
  /\ wk' = [wk EXCEPT ![w].st = "failed"]
  /\ IF wk[w].kind = "go"
     THEN calls' = [calls EXCEPT ![wk[w].call] =
                      [@ EXCEPT !.st = "rejected",
                                !.out = Val("Error", "worker error")]]
     ELSE UNCHANGED calls
  /\ IF wk[w].kind = "start" /\ w \in startSt.wait
     THEN startSt' = [startSt EXCEPT
                        !.wait = @ \ {w},
                        !.st = IF @ = "forking" THEN "rejected" ELSE @,
                        !.err = IF startSt.st = "forking" THEN "Error" ELSE @]
     ELSE UNCHANGED startSt
  /\ UNCHANGED <<mainVars, poolVars, uids, tasks, noWorkerWarningEmitted,
                 warnings, chanVars, now, nspawn, nstarts, terms>>
  /\ UNCHANGED <<regVars, optVars, workVars>>

\* A thread worker exits before its first message without an "error" (the
\* entry file calls process.exit() while loading): the promise of
\* adapter.fork listens to "message" and "error" only (part_008:43-44), and
\* forkWorker has not attached its "exit" listener yet, so nothing runs on
\* the main side.
SpawnExit(w) ==
  /\ wk[w].st = "spawning" /\ wk[w].ad = "worker_threads"
  /\ wk' = [wk EXCEPT ![w].st = "exited", ![w].code = 0]
  /\ UNCHANGED <<mainVars, poolVars, callVars, chanVars, now, nspawn, startSt,
                 nstarts, terms>>
  /\ UNCHANGED <<regVars, optVars, workVars>>

\* ------------------------------------------------------------ worker side
WireNull == compose(Null, FALSE)

\* useNativeClone as a worker computes it when it loads the module
\* (part_003:66-69, 81)
WorkerNativeClone(ad) == ad = "worker_threads" /\ nativeErrorCloneSupport

\* Whether eval / runInThisContext of "(" + text + ")" succeeds
\* (part_003:345-349): the text of a function literal is an expression, the
\* text the host gives for a built-in function is not.
Evaluable(text) == text # "mathMax"

\* What eval / runInThisContext throws on a text that does not parse
EvalFailure == [k |-> "throw", val |-> Val("SyntaxError", "Unexpected identifier")]

\* Variant of Resolve that looks a source text up in the registry and
\* refuses a text that is not registered.
ResolveRegistered(reg, r) ==
  IF r.target = 0
  THEN IF IndexOf(reg, r.text) = 0 THEN "" ELSE r.text
  ELSE IF r.target > Len(reg) THEN ""
  ELSE IF r.sig # hash(reg[r.target]) THEN ""
  ELSE reg[r.target]

\* Variant of Resolve that checks only that the slot is filled, not its
\* signature.
ResolveUnsigned(reg, r) ==
  IF r.target = 0 THEN r.text
  ELSE IF r.target > Len(reg) THEN ""
  ELSE reg[r.target]

\* The function a Call Request resolves to in a process whose registry is
\* reg (part_003:337-363); "" when the registry check throws.
Resolve(reg, r) ==
  IF r.target = 0 THEN r.text
  ELSE IF r.target > Len(reg) THEN ""
  ELSE IF r.sig # hash(reg[r.target]) THEN ""
  ELSE reg[r.target]

\* Variant of handleCallRequest that answers a failure like a success
\* without a result.
handleCallRequestQuiet(reg, r, native) ==
  LET fn == Resolve(reg, r)
      res == IF fn = ""
             THEN [k |-> "throw", val |-> Val("Error", MalformedMsg)]
             ELSE IF r.target = 0 /\ ~Evaluable(r.text) THEN EvalFailure
             ELSE Apply(fn, decompose(r.args))
  IN  [uid |-> r.uid, err |-> WireNull,
       result |-> IF res.k = "ok" THEN compose(res.val, native) ELSE WireNull]

\* Variant of handleCallRequest that sends the outcome as it is, without
\* the codec.
handleCallRequestRaw(reg, r, native) ==
  LET fn == Resolve(reg, r)
      res == IF fn = ""
             THEN [k |-> "throw", val |-> Val("Error", MalformedMsg)]
             ELSE IF r.target = 0 /\ ~Evaluable(r.text) THEN EvalFailure
             ELSE Apply(fn, decompose(r.args))
      raw == [t |-> res.val.t, c |-> "", v |-> res.val.v]
  IN  IF res.k = "ok"
      THEN [uid |-> r.uid, err |-> WireNull, result |-> raw]
      ELSE [uid |-> r.uid, err |-> raw, result |-> WireNull]

\* handleCallRequest (part_003:331-369) in a process whose useNativeClone
\* is `native`: the Call Response it builds.
handleCallRequest(reg, r, native) ==
  LET fn == Resolve(reg, r)
      res == IF fn = ""
             THEN [k |-> "throw", val |-> Val("Error", MalformedMsg)]
             ELSE IF r.target = 0 /\ ~Evaluable(r.text) THEN EvalFailure
             ELSE Apply(fn, decompose(r.args))
  IN  IF res.k = "ok"
      THEN [uid |-> r.uid, err |-> WireNull, result |-> compose(res.val, native)]
      ELSE [uid |-> r.uid, err |-> compose(res.val, native), result |-> WireNull]

\* adapter.send(response) inside the worker (part_003:378)
Sent(ad, m) ==
  [uid |-> m.uid, err |-> Transmit(ad, m.err), result |-> Transmit(ad, m.result)]

\* Worker w finishes one of the requests it holds and sends the response.
\* Requests run concurrently in the worker (the target may be async), so
\* they finish in any order.
WorkerRespond(w, r) ==
  /\ wk[w].st = "alive" /\ wk[w].ready
  /\ r \in inbox[w]
  /\ inbox' = [inbox EXCEPT ![w] = @ \ {r}]
  /\ outbox' = [outbox EXCEPT ![w] =
                  Append(@, Sent(wk[w].ad,
                    handleCallRequest(WorkerRegistry, r, WorkerNativeClone(wk[w].ad))))]
  /\ invoked' = IF Resolve(WorkerRegistry, r) = "" THEN invoked
                ELSE invoked \cup {<<r.uid, Resolve(WorkerRegistry, r)>>}
  /\ UNCHANGED <<mainVars, poolVars, callVars, now, wk, nspawn, startSt, nstarts, terms>>
  /\ UNCHANGED <<regVars, optVars, workVars>>

\* ------------------------------------------------- main-side message handler
\* Variant of isCallResponse that takes any array of length 3.
isCallResponseAnyError(m) == "err" \in DOMAIN m

\* isCallResponse (part_003:427-432); the messages of the outbox are arrays
\* of length 3 with a numeric uid.
isCallResponse(m) == "err" \in DOMAIN m /\ TypeOf(m.err) = "object"

\* isCallRequest (part_003:419-425): an array of length 4
isCallRequest(m) == "sig" \in DOMAIN m

\* The function literal of go.workers() (part_003:260), as source text
PoolLengthFn == "() => pool.length"

\* fn(...args) on the main side, where eval sees the module scope
\* (part_003:345-346, 365-366)
ApplyOnMain(fn, arg) ==
  IF fn = PoolLengthFn
  THEN [k |-> "ok", val |-> Val("number", ToString(Len(pool)))]
  ELSE Apply(fn, arg)

\* handleCallRequest(msg, worker) on the main side (part_003:331-369): the
\* Call Response it builds.
handleCallRequestOnMain(r) ==
  LET fn == Resolve(registry, r)
      res == IF fn = ""
             THEN [k |-> "throw", val |-> Val("Error", MalformedMsg)]
             ELSE IF r.target = 0 /\ ~Evaluable(r.text) THEN EvalFailure
             ELSE ApplyOnMain(fn, decompose(r.args))
  IN  IF res.k = "ok"
      THEN [uid |-> r.uid, err |-> WireNull,
            result |-> compose(res.val, useNativeClone)]
      ELSE [uid |-> r.uid, err |-> compose(res.val, useNativeClone),
            result |-> WireNull]

\* Variant of Replied that hands the response to every worker.
RepliedToAll(w, m) == [v \in Wids |-> Append(replies[v], m)]

\* worker.postMessage(response) / worker.send(response) on the worker the
\* request came from (part_003:371-376)
Replied(w, m) == [replies EXCEPT ![w] = Append(@, m)]

\* Variant of TasksGet that takes the oldest pending entry whatever the uid
\* of the response (matching by order instead of by uid).
TasksGetOldest(uid) == {t \in tasks : \A u \in tasks : t[1] <= u[1]}

\* tasks.get(uid): the entries of the pending table under that key
TasksGet(uid) == {t \in tasks : t[1] = uid}

\* Variant of TasksDelete that leaves the entry in the table.
TasksDeleteNothing(uid) == tasks

\* tasks.delete(uid): part_003:325
TasksDelete(uid) == {t \in tasks : t[1] # uid}

\* task.reject / task.resolve: a promise settles once
Settle(rec, m) ==
  IF rec.st # "pending" THEN rec
  ELSE IF Truthy(m.err)
       THEN [rec EXCEPT !.st = "rejected", !.out = decompose(m.err)]
       ELSE [rec EXCEPT !.st = "resolved", !.out = decompose(m.result)]

\* The "message" listener of forkWorker (part_003:391-398) on the next
\* message of worker w, with handleCallResponse (part_003:319-329) and
\* handleCallRequest(msg, worker) (part_003:331-380).  The response to a
\* request goes out by postMessage or send as the module-level flag says;
\* the call throws when the worker has no such method or is gone.
MainRecv(w) ==
  /\ wk[w].st \in {"alive", "exited"}
  /\ outbox[w] # <<>>
  /\ outbox' = [outbox EXCEPT ![w] = Tail(@)]
  /\ LET m == Head(outbox[w])
         ts == TasksGet(m.uid)
     IN  IF isCallResponse(m) /\ ts # {}
         THEN LET c == (CHOOSE t \in ts : TRUE)[2]
              IN  /\ tasks' = TasksDelete(m.uid)
                  /\ calls' = [calls EXCEPT ![c] = Settle(@, m)]
         ELSE UNCHANGED <<tasks, calls>>
  /\ LET m == Head(outbox[w])
     IN  IF ~isCallResponse(m) /\ isCallRequest(m) /\ wk[w].st = "alive" /\ CanPost(w)
         THEN replies' = Replied(w, Sent(wk[w].ad, handleCallRequestOnMain(m)))
         ELSE UNCHANGED replies
  /\ UNCHANGED <<mainVars, poolVars, uids, noWorkerWarningEmitted, warnings,
                 inbox, invoked, now, wk, nspawn, startSt, nstarts, terms>>
  /\ UNCHANGED <<regVars, optVars, rt, wuids, wtasks, wcalls>>

\* ------------------------------------------------ the facade in a worker
WorkerCalls == {<<w, i>> : w \in Wids, i \in 1..MaxWorkerCalls}
NWorkerCalls == Cardinality({x \in WorkerCalls : x[2] <= Len(wcalls[x[1]])})

\* go(), go.start() or go.terminate() called by the code running in worker
\* w (part_003:110, 193, 250).  All three are async functions: what the
\* check throws comes out as the rejection of the promise they return.
WorkerMisuse(w, name) ==
  /\ wk[w].st = "alive" /\ wk[w].ready
  /\ NWorkerCalls < MaxWorkerCalls
  /\ LET e == ensureCallInMainThread(FALSE, name)
     IN  wcalls' = [wcalls EXCEPT ![w] = Append(@,
                     IF e # ""
                     THEN [op |-> name, uid |-> 0 - 1, st |-> "rejected",
                           out |-> Val("Error", e)]
                     ELSE [op |-> name, uid |-> 0 - 1, st |-> "resolved",
                           out |-> Undefined])]
  /\ UNCHANGED <<mainVars, poolVars, callVars, chanVars, now, wk, nspawn, startSt,
                 nstarts, terms, regVars, optVars, rt, wuids, wtasks, replies>>

\* The Call Request of go.workers() (part_003:258-266)
WorkersRequest(uid) ==
  [uid |-> uid, target |-> 0, text |-> PoolLengthFn, sig |-> hash(PoolLengthFn),
   args |-> [t |-> "array", c |-> "", v |-> ""]]

\* go.workers() called by the code running in worker w (part_003:257-271)
WorkerGoWorkers(w) ==
  /\ wk[w].st = "alive" /\ wk[w].ready
  /\ NWorkerCalls < MaxWorkerCalls
  /\ LET uid == NextUid(wuids[w])
     IN  /\ wuids' = [wuids EXCEPT ![w] = uid]
         /\ wtasks' = [wtasks EXCEPT ![w] = @ \cup {uid}]
         /\ outbox' = [outbox EXCEPT ![w] = Append(@, WorkersRequest(uid))]
         /\ wcalls' = [wcalls EXCEPT ![w] = Append(@,
                         [op |-> "go.workers", uid |-> uid, st |-> "pending",
                          out |-> NoVal])]
  /\ UNCHANGED <<mainVars, poolVars, callVars, inbox, invoked, now, wk, nspawn,
                 startSt, nstarts, terms, regVars, optVars, rt, replies>>

\* The "message" listener of the worker (part_003:493-500) on the next
\* Call Response from the parent, with handleCallResponse (part_003:319-329).
WorkerRecv(w) ==
  /\ wk[w].st = "alive" /\ wk[w].ready
  /\ replies[w] # <<>>
  /\ replies' = [replies EXCEPT ![w] = Tail(@)]
  /\ LET m == Head(replies[w])
     IN  IF isCallResponse(m) /\ m.uid \in wtasks[w]
         THEN /\ wtasks' = [wtasks EXCEPT ![w] = @ \ {m.uid}]
              /\ wcalls' = [wcalls EXCEPT ![w] =
                              [i \in 1..Len(@) |->
                                 IF @[i].uid = m.uid THEN Settle(@[i], m) ELSE @[i]]]
         ELSE UNCHANGED <<wtasks, wcalls>>
  /\ UNCHANGED <<mainVars, poolVars, callVars, chanVars, now, wk, nspawn, startSt,
                 nstarts, terms, regVars, optVars, rt, wuids>>

\* ------------------------------------------- messages of other origin
\* What a "message" listener can be handed besides the facade's own
\* messages: strings other than "TICK" ("READY" among them) and arrays that
\* are neither of length 4 nor of length 3 (part_003:419-432).
OtherMsgs == {[tok |-> "READY"], [tok |-> "hello"], [uid |-> 0]}

\* Arrays of the shape of a Call Response that answer no request of their
\* receiver's: the uid is one the receiver has used, or one it never drew.
ExtraResponses ==
  {[uid |-> u, err |-> WireNull, result |-> compose(Val("string", "late"), FALSE)] :
     u \in 0..MaxCalls}

\* The code running in worker w posts a message of its own to the main side
\* (parentPort.postMessage / process.send); it arrives at the "message"
\* listener of forkWorker (part_003:391).
WorkerPost(w, m) ==
  /\ wk[w].st = "alive" /\ wk[w].ready
  /\ Len(outbox[w]) < MaxStray
  /\ outbox' = [outbox EXCEPT ![w] = Append(@, m)]
  /\ UNCHANGED <<mainVars, poolVars, callVars, inbox, invoked, now, wk, nspawn,
                 startSt, nstarts, terms>>
  /\ UNCHANGED <<regVars, optVars, workVars>>

\* A message that is not the facade's arrives on the port of worker w, at
\* the listener of part_003:493.
PortMessage(w, m) ==
  /\ wk[w].st = "alive" /\ wk[w].ready
  /\ Len(replies[w]) < MaxStray
  /\ replies' = [replies EXCEPT ![w] = Append(@, m)]
  /\ UNCHANGED <<mainVars, poolVars, callVars, chanVars, now, wk, nspawn, startSt,
                 nstarts, terms, regVars, optVars, rt, wuids, wtasks, wcalls>>

\* ------------------------------------------------ the runtime of a worker
\* Worker w loads the module (part_003:492-512): the "message" listener is
\* put on the port, the READY callback is handed to setImmediate and the
\* TICK callback to setInterval; the entry file that required the module
\* goes on running.
WorkerLoad(w) ==
  /\ wk[w].st \in {"spawning", "alive"}
  /\ rt[w].phase = "none"
  /\ rt' = [rt EXCEPT ![w] = [NoRuntime EXCEPT !.phase = "loading",
                                              !.immediate = TRUE,
                                              !.loaded = now,
                                              !.due = now + TickEvery]]
  /\ UNCHANGED <<mainVars, poolVars, callVars, chanVars, now, wk, nspawn, startSt,
                 nstarts, terms, regVars, optVars, wuids, wtasks, wcalls, replies>>

\* The entry file of worker w has run to its end: the event loop starts,
\* with its timers phase.
EntryFileDone(w) ==
  /\ rt[w].phase = "loading"
  /\ rt' = [rt EXCEPT ![w].phase = "timers"]
  /\ UNCHANGED <<mainVars, poolVars, callVars, chanVars, now, wk, nspawn, startSt,
                 nstarts, terms, regVars, optVars, wuids, wtasks, wcalls, replies>>

\* The callback of setInterval has run at time t: adapter.send("TICK")
\* (part_003:510-512); the interval is armed again TickEvery ms later.
\* ticks counts the TICKs emitted up to two.
AfterInterval(r, t) ==
  [r EXCEPT !.ticks = IF @ < 2 THEN @ + 1 ELSE @, !.last = t, !.due = t + TickEvery,
            !.first = IF @ = "" THEN "TICK" ELSE @]

\* The timers phase of the event loop of worker w: the interval's callback
\* runs if its time has come.
LoopTimers(w) ==
  /\ rt[w].phase = "timers"
  /\ rt' = [rt EXCEPT ![w] =
              [(IF now >= rt[w].due THEN AfterInterval(rt[w], now) ELSE rt[w])
                 EXCEPT !.phase = "check"]]
  /\ UNCHANGED <<mainVars, poolVars, callVars, chanVars, now, wk, nspawn, startSt,
                 nstarts, terms, regVars, optVars, wuids, wtasks, wcalls, replies>>

\* Variant of AfterImmediate in which the callback stays queued.
AfterImmediateKept(r) ==
  [r EXCEPT !.readys = IF @ < 2 THEN @ + 1 ELSE @,
            !.first = IF @ = "" THEN "READY" ELSE @]

\* The callback of setImmediate has run: adapter.send("READY")
\* (part_003:503); an immediate runs once.
AfterImmediate(r) ==
  [r EXCEPT !.immediate = FALSE, !.readys = @ + 1,
            !.first = IF @ = "" THEN "READY" ELSE @]

\* The check phase of the event loop of worker w, which runs the callbacks
\* of setImmediate; the loop then goes round to its timers phase.
LoopCheck(w) ==
  /\ rt[w].phase = "check"
  /\ rt' = [rt EXCEPT ![w] =
              [(IF rt[w].immediate THEN AfterImmediate(rt[w]) ELSE rt[w])
                 EXCEPT !.phase = "timers"]]
  /\ UNCHANGED <<mainVars, poolVars, callVars, chanVars, now, wk, nspawn, startSt,
                 nstarts, terms, regVars, optVars, wuids, wtasks, wcalls, replies>>

\* TickEvery ms pass.
Elapse ==
  /\ now < MaxTime * (StaleAfter \div 2)
  /\ now' = now + TickEvery
  /\ UNCHANGED <<mainVars, poolVars, callVars, chanVars, wk, nspawn, startSt,
                 nstarts, terms>>
  /\ UNCHANGED <<regVars, optVars, workVars>>

\* go.workers() on the main side (part_003:255-256)
GoWorkers ==
  /\ ret' = [op |-> "go.workers", arg |-> "", k |-> "ok", val |-> ToString(Len(pool))]
  /\ UNCHANGED <<mainVars, poolVars, callVars, chanVars, now, wk, nspawn, startSt,
                 nstarts, terms, registry, includes, collected, ticked, optVars,
                 workVars>>

\* Variant of Tick that refreshes the tick time of every worker in the pool.
TickOfAll(w) ==
  /\ wk[w].st = "alive" /\ wk[w].ready
  /\ lastTick[w] # now
  /\ lastTick' = [v \in Wids |-> IF v \in PoolSet THEN now ELSE lastTick[v]]
  /\ UNCHANGED <<mainVars, pool, callVars, chanVars, now, wk, nspawn, startSt,
                 nstarts, terms>>
  /\ UNCHANGED <<regVars, optVars, workVars>>

\* A TICK of worker w arrives (part_003:392-393).
Tick(w) ==
  /\ wk[w].st = "alive" /\ wk[w].ready
  /\ lastTick[w] # now
  /\ lastTick' = [lastTick EXCEPT ![w] = now]
  /\ UNCHANGED <<mainVars, pool, callVars, chanVars, now, wk, nspawn, startSt,
                 nstarts, terms>>
  /\ UNCHANGED <<regVars, optVars, workVars>>

\* Time passes.
Tock ==
  /\ now < MaxTime * (StaleAfter \div 2)
  /\ now' = now + (StaleAfter \div 2)
  /\ UNCHANGED <<mainVars, poolVars, callVars, chanVars, wk, nspawn, startSt,
                 nstarts, terms>>
  /\ UNCHANGED <<regVars, optVars, workVars>>

\* ------------------------------------------------------------ worker exit
\* The (code, signal) pairs worker w can exit with.  code -1 stands for null.
\* A worker the facade terminated exits the way the host runtime ends it:
\* worker.terminate() gives code 1, kill() gives SIGTERM.  Otherwise a thread
\* ends with code 0 (process.exit()) or 1 (uncaught exception), a subprocess
\* with code 1 (crash) or by an external SIGTERM.
ExitsOf(w) ==
  IF wk[w].ad = "worker_threads"
  THEN IF wk[w].killed THEN {[code |-> 1, sig |-> ""]}
       ELSE {[code |-> 0, sig |-> ""], [code |-> 1, sig |-> ""]}
  ELSE IF wk[w].killed THEN {[code |-> 0 - 1, sig |-> "SIGTERM"]}
       ELSE {[code |-> 1, sig |-> ""], [code |-> 0 - 1, sig |-> "SIGTERM"]}

\* worker.terminate() resolves when the worker's exit event has been emitted.
TermsAfterExit(w) ==
  [i \in DOMAIN terms |->
     IF terms[i].st = "pending"
     THEN [terms[i] EXCEPT !.wait = @ \ {w},
                           !.st = IF terms[i].wait \subseteq {w}
                                  THEN "resolved" ELSE "pending"]
     ELSE terms[i]]

\* The once("exit") listener of forkWorker: part_003:399-409.
WorkerExit(w, ex) ==
  /\ wk[w].st = "alive"
  /\ ex \in ExitsOf(w)
  /\ pool' = Splice(pool, PoolIndexOf(w))
  /\ IF ~isNormalExit(wk[w].ad, ex.code, ex.sig)
     THEN /\ nspawn < MaxSpawn
          /\ nspawn' = nspawn + 1
          /\ wk' = [wk EXCEPT
                      ![w] = [@ EXCEPT !.st = "exited", !.code = ex.code, !.sig = ex.sig],
                      ![nspawn + 1] = Forking("replace", 0, wk[w].ad, wk[w].opts)]
     ELSE /\ wk' = [wk EXCEPT
                      ![w] = [@ EXCEPT !.st = "exited", !.code = ex.code, !.sig = ex.sig]]
          /\ UNCHANGED nspawn
  /\ terms' = TermsAfterExit(w)
  /\ UNCHANGED <<mainVars, lastTick, callVars, chanVars, now, startSt, nstarts>>
  /\ UNCHANGED <<regVars, optVars, workVars>>

\* --------------------------------------------------------- go.terminate()
\* adapter.terminate(worker) exists for a worker of the adapter's own kind:
\* worker.terminate() on a thread, worker.kill() on a subprocess.
CanTerminate(w) == wk[w].ad = adapter

\* go.terminate(): part_003:249-252 with the adapters' terminate
\* (child_process.ts:116-118, part_008:47-49).  Reading adapter.terminate
\* throws while adapter is null.
GoTerminate ==
  /\ ensureCallInMainThread(TRUE, "go.terminate") = ""
  /\ Len(terms) < MaxTerms
  /\ IF adapter = "null"
     THEN /\ terms' = Append(terms, [ws |-> PoolSet, wait |-> {}, st |-> "rejected",
                                     starts |-> nstarts, early |-> (startSt.st = "forking")])
          /\ UNCHANGED wk
     ELSE /\ wk' = [w \in Wids |->
                      IF w \in PoolSet /\ CanTerminate(w)
                      THEN [wk[w] EXCEPT !.killed = TRUE] ELSE wk[w]]
          /\ terms' = Append(terms,
               [ws |-> PoolSet,
                wait |-> IF adapter = "worker_threads"
                         THEN {w \in PoolSet : CanTerminate(w)} ELSE {},
                st |-> IF \E w \in PoolSet : ~CanTerminate(w) THEN "rejected"
                       ELSE IF adapter = "worker_threads" /\ PoolSet # {}
                            THEN "pending" ELSE "resolved",
                starts |-> nstarts, early |-> (startSt.st = "forking")])
  /\ UNCHANGED <<mainVars, poolVars, callVars, chanVars, now, nspawn, startSt, nstarts>>
  /\ UNCHANGED <<regVars, optVars, workVars>>

\* ---------------------------------------------------- go.register / go.use
\* Variant of register that pushes without looking the function up.
registerAlways(reg, fn) == Append(reg, fn)

\* The registry after go.register(fn) of a function: part_003:168-169
register(reg, fn) == IF IndexOf(reg, fn) = 0 THEN Append(reg, fn) ELSE reg

\* go.register(fn): part_003:166-171
GoRegister(fn) ==
  /\ IF isFunction(fn)
     THEN /\ registry' = register(registry, fn)
          /\ ret' = [op |-> "register", arg |-> fn, k |-> "ok", val |-> fn]
     ELSE /\ ret' = [op |-> "register", arg |-> fn, k |-> "throw",
                     val |-> FunctionArgError("register", fn).v]
          /\ UNCHANGED registry
  /\ UNCHANGED <<includes, collected, ticked>>
  /\ UNCHANGED <<mainVars, poolVars, callVars, chanVars, now, wk, nspawn, startSt,
                 nstarts, terms, optVars, workVars>>

\* The roots a program may hand to go.use():
\*   modA     a module whose exports object holds sum, klass and a number
\*   modFn    a module written `module.exports = greeting`
\*   exportsB a plain exports object holding throwError and sum
\*   num, undef   not a module and not an object
\* [obj |-> its exports are an object, props |-> own enumerable values,
\*  bare |-> the exported value when it is not an object]
Exports(root) ==
  CASE root = "modA" -> [obj |-> TRUE, props |-> <<"sum", "klass", "num">>, bare |-> ""]
    [] root = "modFn" -> [obj |-> FALSE, props |-> <<>>, bare |-> "greeting"]
    [] root = "exportsB" -> [obj |-> TRUE, props |-> <<"throwError", "sum">>, bare |-> ""]
    [] OTHER -> [obj |-> FALSE, props |-> <<>>, bare |-> root]

\* module instanceof Module, or module && typeof module === "object"
IsRoot(root) == root \in {"modA", "modFn", "exportsB"}

UseError == "Argument for go.use() must be a Node.js module or its exports"

\* go.use(module): part_003:178-189
GoUse(root) ==
  /\ IF IsRoot(root)
     THEN /\ includes' = IF IndexOf(includes, root) = 0
                         THEN Append(includes, root) ELSE includes
          /\ ret' = [op |-> "use", arg |-> root, k |-> "ok", val |-> ""]
     ELSE /\ ret' = [op |-> "use", arg |-> root, k |-> "throw", val |-> UseError]
          /\ UNCHANGED includes
  /\ UNCHANGED <<registry, collected, ticked>>
  /\ UNCHANGED <<mainVars, poolVars, callVars, chanVars, now, wk, nspawn, startSt,
                 nstarts, terms, optVars, workVars>>

\* The functions the collector registers for one root: part_003:479-488
Collectable(root) ==
  LET e == Exports(root)
  IN  IF e.obj THEN SelectSeq(e.props, isFunction)
      ELSE IF isFunction(e.bare) THEN <<e.bare>> ELSE <<>>

RECURSIVE RegisterAll(_, _)
RegisterAll(reg, fns) ==
  IF fns = <<>> THEN reg ELSE RegisterAll(register(reg, Head(fns)), Tail(fns))

RECURSIVE Collect(_, _)
\* for (let module of includes) ...: part_003:470-490
Collect(reg, roots) ==
  IF roots = <<>> THEN reg
  ELSE Collect(RegisterAll(reg, Collectable(Head(roots))), Tail(roots))

\* One turn of the event loop: the setImmediate callback installed when the
\* module was loaded runs on the first turn and never again (part_003:469);
\* every root recorded so far has then seen a scheduler tick.
Immediate ==
  /\ registry' = IF collected THEN registry ELSE Collect(registry, includes)
  /\ collected' = TRUE
  /\ ticked' = {includes[i] : i \in 1..Len(includes)}
  /\ ticked' # ticked \/ ~collected
  /\ UNCHANGED <<includes, ret>>
  /\ UNCHANGED <<mainVars, poolVars, callVars, chanVars, now, wk, nspawn, startSt,
                 nstarts, terms, optVars, workVars>>

\* ----------------------------------------------------------- specification
\* Spec: the life cycle of the pool.  Every start option, both transports,
\* replacement spawns, exits and terminate; the calls all run one function.
\* No time passes, so no worker is ever seen as blocked (see SpecScale).
Fns == {"sum"}
ArgsOfSpec == {"a"}

Next ==
  \/ \E o \in StartOpts : GoStart(o)
  \/ \E fn \in Fns, a \in ArgsOfSpec : GoCall(fn, a)
  \/ \E w \in Wids : ForkDone(w)
  \/ \E w \in Wids : WorkerReady(w)
  \/ \E w \in Wids : \E r \in inbox[w] : WorkerRespond(w, r)
  \/ \E w \in Wids : MainRecv(w)
  \/ \E w \in Wids : \E ex \in ExitsOf(w) : WorkerExit(w, ex)
  \/ GoTerminate

Spec == Init /\ [][Next]_vars

\* SpecScale: dispatch and on-demand scaling on the thread transport.  Time
\* passes and TICKs arrive or fail to arrive; pools of a fixed size and
\* dynamic pools of up to MaxSpawn workers under either policy; workers
\* die; nobody calls go.terminate().
ScaleOpts ==
  {[dyn |-> FALSE, min |-> n, max |-> n, method |-> m, adapter |-> ""] :
     n \in 1..MaxWorkersOpt, m \in {"", "least-time"}}
  \cup
  {[dyn |-> TRUE, min |-> lo, max |-> hi, method |-> m, adapter |-> ""] :
     lo \in 1..MaxWorkersOpt, hi \in 1..MaxSpawn, m \in {"", "round-robin"}}

NextScale ==
  \/ \E o \in ScaleOpts : GoStart(o)
  \/ \E fn \in Fns, a \in ArgsOfSpec : GoCall(fn, a)
  \/ \E w \in Wids : ForkDone(w)
  \/ \E w \in Wids : \E r \in inbox[w] : WorkerRespond(w, r)
  \/ \E w \in Wids : MainRecv(w)
  \/ \E w \in Wids : Tick(w)
  \/ Tock
  \/ \E w \in Wids : \E ex \in ExitsOf(w) : WorkerExit(w, ex)

SpecScale == Init /\ [][NextScale]_vars

\* SpecStart: starting up.  Every `workers` and `method` option on both
\* transports; a worker may fail or exit while it is being forked, a
\* subprocess becomes ready some time after its fork has returned, workers
\* die and are replaced, and calls are made before, during and after the
\* start.  Responses are left to SpecCall.
Methods == {"", "round-robin", "least-time"}

StartUpOpts ==
  {[dyn |-> FALSE, min |-> n, max |-> n, method |-> m, adapter |-> a] :
     n \in 0..MaxWorkersOpt, m \in Methods, a \in {"", "child_process"}}
  \cup
  {[dyn |-> TRUE, min |-> lo, max |-> hi, method |-> m, adapter |-> a] :
     lo \in 0..MaxWorkersOpt, hi \in 1..MaxWorkersOpt,
     m \in Methods, a \in {"", "child_process"}}

NextStart ==
  \/ \E o \in StartUpOpts : GoStart(o)
  \/ \E fn \in Fns, a \in ArgsOfSpec : GoCall(fn, a)
  \/ \E w \in Wids : ForkDone(w)
  \/ \E w \in Wids : WorkerReady(w)
  \/ \E w \in Wids : SpawnError(w)
  \/ \E w \in Wids : SpawnExit(w)
  \/ \E w \in Wids : Tick(w)
  \/ Tock
  \/ \E w \in Wids : \E ex \in ExitsOf(w) : WorkerExit(w, ex)

SpecStart == Init /\ [][NextStart]_vars

\* SpecCall: the call protocol.  A fixed pool on either transport, every
\* kind of target function, responses in any order; workers leave only
\* through go.terminate().
CallFns == {"sum", "literal", "greeting", "drift", "coll", "throwError",
            "throwObject", "throwString", "throwNumber", "throwNull",
            "throwUndefined"}
CallOpts == {o \in StartOpts : ~o.dyn /\ o.method = "" /\ o.min >= 1}

NextCall ==
  \/ \E o \in CallOpts : GoStart(o)
  \/ \E fn \in CallFns, a \in Args : GoCall(fn, a)
  \/ \E w \in Wids : ForkDone(w)
  \/ \E w \in Wids : WorkerReady(w)
  \/ \E w \in Wids : \E r \in inbox[w] : WorkerRespond(w, r)
  \/ \E w \in Wids : MainRecv(w)
  \/ \E w \in Wids : \E ex \in ExitsOf(w) : wk[w].killed /\ WorkerExit(w, ex)
  \/ GoTerminate

SpecCall == Init /\ [][NextCall]_vars

\* SpecRegistry: building the registry.  The program starts with an empty
\* registry, registers functions and other things, records roots with
\* go.use() before and after the first scheduler tick, and calls go() with
\* functions and other things on an empty and on a started pool; the
\* responses are left to SpecCall.
RegThings == {"sum", "greeting", "klass", "num"}
Roots == {"modA", "modFn", "exportsB", "num"}
RegCallFns == {"sum", "klass", "obj"}
RegOpts ==
  {[dyn |-> FALSE, min |-> 1, max |-> 1, method |-> "", adapter |-> a] :
     a \in {"", "child_process"}}

NextRegistry ==
  \/ \E fn \in RegThings : GoRegister(fn)
  \/ \E root \in Roots : GoUse(root)
  \/ Immediate
  \/ \E o \in RegOpts : GoStart(o)
  \/ \E fn \in RegCallFns, a \in ArgsOfSpec : GoCall(fn, a)
  \/ \E w \in Wids : ForkDone(w)
  \/ \E w \in Wids : WorkerReady(w)

SpecRegistry == InitLoad /\ [][NextRegistry]_vars

\* SpecOptions: the options handed to each spawn.  The parent runs with or
\* without a debug flag; fixed pools on both transports; workers die and
\* are replaced.
OptionOpts ==
  {[dyn |-> FALSE, min |-> n, max |-> n, method |-> "", adapter |-> a] :
     n \in 1..MaxWorkersOpt, a \in {"", "child_process"}}

NextOptions ==
  \/ \E o \in OptionOpts : GoStart(o)
  \/ \E fn \in Fns, a \in ArgsOfSpec : GoCall(fn, a)
  \/ \E w \in Wids : ForkDone(w)
  \/ \E w \in Wids : WorkerReady(w)
  \/ \E w \in Wids : \E ex \in ExitsOf(w) : WorkerExit(w, ex)

SpecOptions == InitOptions /\ [][NextOptions]_vars

\* SpecWorker: the facade as seen from inside the workers.  A fixed pool on
\* either transport; the code running in a worker calls go.workers(), go(),
\* go.start() and go.terminate(); the main side calls go() and
\* go.workers() before, during and after the start.
WorkerFns == {"sum", "throwError"}
Misuses == {"go", "go.start", "go.terminate"}

NextWorker ==
  \/ \E o \in OptionOpts : GoStart(o)
  \/ \E fn \in WorkerFns, a \in ArgsOfSpec : GoCall(fn, a)
  \/ GoWorkers
  \/ \E w \in Wids : ForkDone(w)
  \/ \E w \in Wids : WorkerReady(w)
  \/ \E w \in Wids : \E r \in inbox[w] : WorkerRespond(w, r)
  \/ \E w \in Wids : MainRecv(w)
  \/ \E w \in Wids, name \in Misuses : WorkerMisuse(w, name)
  \/ \E w \in Wids : WorkerGoWorkers(w)
  \/ \E w \in Wids : WorkerRecv(w)

SpecWorker == Init /\ [][NextWorker]_vars

\* SpecCodec: what arrives.  One worker on either transport, on a host with
\* or without the native clone of Errors; the calls pass every kind of value
\* to a function that returns its argument, or call a function that returns
\* a cyclic object.
CodecFns == {"echo", "transferCircular"}
CodecArgs == {"a", "map", "date", "regexp", "bytes", "buffer", "nan", "infinity",
              "typeError", "assertionError", "cyclic"}
CodecOpts ==
  {[dyn |-> FALSE, min |-> 1, max |-> 1, method |-> "", adapter |-> a] :
     a \in {"", "child_process"}}

NextCodec ==
  \/ \E o \in CodecOpts : GoStart(o)
  \/ \E fn \in CodecFns, a \in CodecArgs : GoCall(fn, a)
  \/ \E w \in Wids : ForkDone(w)
  \/ \E w \in Wids : WorkerReady(w)
  \/ \E w \in Wids : \E r \in inbox[w] : WorkerRespond(w, r)
  \/ \E w \in Wids : MainRecv(w)

SpecCodec == InitCodec /\ [][NextCodec]_vars

\* SpecMessages: what the two "message" listeners do with whatever reaches
\* them.  One worker on either transport; calls that return, and calls
\* whose function throws a string; go.workers() inside the workers; and
\* between the facade's messages, strings, odd arrays and surplus
\* responses posted on either channel.
MsgFns == {"sum", "throwString"}
MsgOpts ==
  {[dyn |-> FALSE, min |-> 1, max |-> 1, method |-> "", adapter |-> a] :
     a \in {"", "child_process"}}

NextMessages ==
  \/ \E o \in MsgOpts : GoStart(o)
  \/ \E fn \in MsgFns : GoCall(fn, "a")
  \/ \E w \in Wids : ForkDone(w)
  \/ \E w \in Wids : WorkerReady(w)
  \/ \E w \in Wids : \E r \in inbox[w] : WorkerRespond(w, r)
  \/ \E w \in Wids : MainRecv(w)
  \/ \E w \in Wids : WorkerGoWorkers(w)
  \/ \E w \in Wids : WorkerRecv(w)
  \/ \E w \in Wids, m \in OtherMsgs \cup ExtraResponses : WorkerPost(w, m)
  \/ \E w \in Wids, m \in OtherMsgs \cup ExtraResponses : PortMessage(w, m)

SpecMessages == Init /\ [][NextMessages]_vars

\* SpecRuntime: what a worker emits by itself.  A worker on either
\* transport loads the module, finishes its entry file sooner or later and
\* runs its event loop while time passes.  The fork of a thread
\* worker resolves on the first message the worker has emitted.
RuntimeOpts ==
  {[dyn |-> FALSE, min |-> 1, max |-> 1, method |-> "", adapter |-> a] :
     a \in {"", "child_process"}}

NextRuntime ==
  \/ \E o \in RuntimeOpts : GoStart(o)
  \/ \E w \in Wids : (wk[w].ad = "worker_threads" => rt[w].first # "") /\ ForkDone(w)
  \/ \E w \in Wids : WorkerLoad(w)
  \/ \E w \in Wids : EntryFileDone(w)
  \/ \E w \in Wids : LoopTimers(w)
  \/ \E w \in Wids : LoopCheck(w)
  \/ Elapse

SpecRuntime == Init /\ [][NextRuntime]_vars

\* The same with the host's scheduling: an entry file runs to its end, and
\* an event loop that is not blocked goes on to its next phase.
SpecRuntimeFair ==
  /\ SpecRuntime
  /\ \A w \in Wids : /\ WF_vars(WorkerLoad(w))
                      /\ WF_vars(EntryFileDone(w))
                      /\ WF_vars(LoopTimers(w))
                      /\ WF_vars(LoopCheck(w))

\* SpecRestart: a pool started again after an earlier pool on the thread
\* transport was terminated; the new start names either transport.  Time
\* passes and TICKs arrive, so workers may be seen as blocked.
RestartOpts ==
  {[dyn |-> FALSE, min |-> 1, max |-> 1, method |-> "", adapter |-> a] :
     a \in {"", "child_process"}}
  \cup
  {[dyn |-> TRUE, min |-> 1, max |-> n, method |-> "", adapter |-> a] :
     n \in 1..MaxWorkersOpt, a \in {"", "child_process"}}

NextRestart ==
  \/ \E o \in RestartOpts : GoStart(o)
  \/ \E fn \in Fns, a \in ArgsOfSpec : GoCall(fn, a)
  \/ \E w \in Wids : ForkDone(w)
  \/ \E w \in Wids : WorkerReady(w)
  \/ \E w \in Wids : \E r \in inbox[w] : WorkerRespond(w, r)
  \/ \E w \in Wids : MainRecv(w)
  \/ \E w \in Wids : Tick(w)
  \/ Tock

SpecRestart == InitRestarted /\ [][NextRestart]_vars

\* SpecSource: functions shipped as source text.  One or two workers on
\* either transport, on a host with or without the native clone of Errors;
\* the calls pass a registered function, a function literal that is not
\* registered, or a built-in function.
SourceFns == {"sum", "literal", "mathMax"}
SourceOpts ==
  {[dyn |-> FALSE, min |-> n, max |-> n, method |-> "", adapter |-> a] :
     n \in 1..MaxWorkersOpt, a \in {"", "child_process"}}

NextSource ==
  \/ \E o \in SourceOpts : GoStart(o)
  \/ \E fn \in SourceFns, a \in Args : GoCall(fn, a)
  \/ \E w \in Wids : ForkDone(w)
  \/ \E w \in Wids : WorkerReady(w)
  \/ \E w \in Wids : \E r \in inbox[w] : WorkerRespond(w, r)
  \/ \E w \in Wids : MainRecv(w)

SpecSource == InitCodec /\ [][NextSource]_vars

\* ================================================================== claims
Settled(rec) == rec.st \in {"resolved", "rejected"}
Remote(rec) == rec.uid >= 0 /\ rec.w # 0

\* The Call Response worker rec.w builds for the call's own Call Request, as
\* it arrives on the main side.
OwnResponse(rec) ==
  Sent(wk[rec.w].ad,
       handleCallRequest(WorkerRegistry, Request(rec.uid, rec.fn, rec.arg),
                         WorkerNativeClone(wk[rec.w].ad)))

\* The request of the call has been answered and the answer has been taken
\* off the channel by the main side.
Delivered(rec) ==
  /\ Request(rec.uid, rec.fn, rec.arg) \notin inbox[rec.w]
  /\ \A i \in 1..Len(outbox[rec.w]) : outbox[rec.w][i].uid # rec.uid

\* C1: every call sent to a worker that has settled has settled with the
\* outcome (resolved or rejected, and the value) carried by the Call Response
\* to its own Call Request, whatever the order in which responses arrived.
C1_SettlesWithOwnResponse ==
  \A c \in 1..Len(calls) :
    Remote(calls[c]) /\ Settled(calls[c]) =>
      calls[c] = Settle([calls[c] EXCEPT !.st = "pending", !.out = NoVal],
                        OwnResponse(calls[c]))

\* C1 witness: two calls with different arguments were sent to the same
\* worker and the later one has settled while the earlier is still pending.
C1_Witness ==
  \E c1, c2 \in 1..Len(calls) :
    /\ c1 < c2
    /\ Remote(calls[c1]) /\ calls[c1].w = calls[c2].w
    /\ calls[c1].arg # calls[c2].arg
    /\ calls[c1].st = "pending" /\ calls[c2].st = "resolved"

\* go.start() has resolved and no go() or go.terminate() call was made
\* while it was still forking.
AfterStart ==
  /\ startSt.st = "resolved"
  /\ \A c \in 1..Len(calls) : ~calls[c].early
  /\ \A i \in 1..Len(terms) : ~terms[i].early

\* C2 (as claimed): after one successful go.start() with min <= max the pool
\* never holds more than maxWorkers workers.
C2_PoolWithinMax ==
  (nstarts = 1 /\ AfterStart /\ startSt.min <= startSt.max)
    => Len(pool) <= maxWorkers

\* C3 (as claimed): no call stays pending, and no entry stays in the pending
\* table, once the worker it was sent to has exited.
C3_ExitRejectsPending ==
  \A c \in 1..Len(calls) :
    Remote(calls[c]) /\ wk[calls[c].w].st = "exited" =>
      /\ calls[c].st # "pending"
      /\ TasksGet(calls[c].uid) = {}

\* The exit was unexpected in the sense of the claim: a subprocess ended by
\* anything but SIGTERM, a thread with an exit code other than 1.
Unexpected(r) ==
  \/ (r.ad = "child_process" /\ r.sig # "SIGTERM")
  \/ (r.ad = "worker_threads" /\ r.code # 1)

ExitsNow(w) == wk[w].st = "alive" /\ wk'[w].st = "exited"
ReplacementsNow == {n \in Wids : wk[n].st = "none" /\ wk'[n].st = "spawning"
                                  /\ wk'[n].kind = "replace"}

\* C4: the step that handles an unexpected exit of worker w removes w, and
\* only w, from the pool and starts exactly one replacement spawn, with the
\* adapter and options w was forked with; the pool length plus the spawns in
\* flight is what it was before the death, so the pool is back at its length
\* once that spawn completes (a completed spawn adds its worker to the pool).
C4_UnexpectedExitReplaced ==
  [][\A w \in Wids :
       /\ (ExitsNow(w) /\ Unexpected(wk'[w]) =>
             /\ w \in PoolSet /\ w \notin {pool'[i] : i \in 1..Len(pool')}
             /\ Len(pool') = Len(pool) - 1
             /\ Cardinality(ReplacementsNow) = 1
             /\ \A n \in ReplacementsNow :
                  wk'[n].ad = wk[w].ad /\ wk'[n].opts = wk[w].opts
             /\ Len(pool') + Cardinality({n \in Wids : wk'[n].st = "spawning"})
                  = Len(pool) + Cardinality(Spawning))
       /\ (wk[w].st = "spawning" /\ wk'[w].st = "alive" =>
             pool' = Append(pool, w))
    ]_vars

\* C4 witness: a replacement worker has itself died unexpectedly and a
\* further replacement has been spawned for it.
C4_Witness ==
  \E w, n \in Wids :
    /\ wk[w].kind = "replace" /\ wk[w].st = "exited" /\ Unexpected(wk[w])
    /\ n > w /\ wk[n].kind = "replace" /\ wk[n].st = "alive"

\* C5 (as claimed): the step that handles the exit of worker w spawns a
\* replacement exactly when the exit was not initiated by go.terminate().
C5_ReplacedUnlessTerminated ==
  [][\A w \in Wids :
       ExitsNow(w) => ((ReplacementsNow # {}) <=> ~wk[w].killed)
    ]_vars

\* C6 (as claimed): once the promise of go.terminate() has resolved, every
\* worker that was in the pool at the call has exited and left the pool.
C6_TerminateDrains ==
  \A i \in 1..Len(terms) :
    terms[i].st = "resolved" =>
      \A w \in terms[i].ws : wk[w].st = "exited" /\ w \notin PoolSet

\* C7 (as claimed): from a go.terminate() call until the next go.start() no
\* worker is added to the pool: the pool holds only workers it held at the
\* call.
C7_NoSpawnAfterTerminate ==
  \A i \in 1..Len(terms) :
    terms[i].starts = nstarts /\ AfterStart => PoolSet \subseteq terms[i].ws

\* C8: a go() call made while the pool is empty settles at once with the
\* outcome of fn(...args) computed on the main side, takes no uid, creates
\* no pending entry, sends no Call Request and forks no worker.
C8_LocalWhenPoolEmpty ==
  [][(Len(calls') = Len(calls) + 1 /\ pool = <<>>) =>
       LET rec == calls'[Len(calls')]
           r == Apply(rec.fn, ArgVal(rec.arg))
       IN  /\ rec.st = (IF r.k = "ok" THEN "resolved" ELSE "rejected")
           /\ rec.out = r.val
           /\ uids' = uids /\ tasks' = tasks /\ inbox' = inbox
           /\ nspawn' = nspawn
    ]_vars

\* C8 witness: after a start and a terminate that drained the pool, a call
\* was served locally and rejected with what the function threw.
C8_Witness ==
  /\ startSt.st = "resolved" /\ terms # <<>> /\ pool = <<>>
  /\ \E c \in 1..Len(calls) :
       calls[c].uid < 0 /\ calls[c].st = "rejected" /\ calls[c].out.t = "Error"

\* The call's target is a registry index whose slot in the worker's registry
\* is empty or holds a function whose source hashes differently.
Mismatch(rec) ==
  LET i == IndexOf(MainRegistry, rec.fn)
  IN  /\ i > 0
      /\ (i > Len(WorkerRegistry) \/ hash(WorkerRegistry[i]) # hash(rec.fn))

\* C9: for a call whose registry index is missing or of another signature in
\* the worker, no function is invoked in the worker, the call never
\* resolves, and once its response has been delivered it is rejected with
\* the registry-malformed message.
C9_MalformedRegistryRejects ==
  \A c \in 1..Len(calls) :
    Remote(calls[c]) /\ Mismatch(calls[c]) =>
      /\ \A p \in invoked : p[1] # calls[c].uid
      /\ calls[c].st # "resolved"
      /\ (Delivered(calls[c]) =>
            calls[c].st = "rejected" /\ calls[c].out = Val("Error", MalformedMsg))

\* C9 witness: one call hit a slot of another signature and one a missing
\* slot, and both have been rejected.
C9_Witness ==
  \E c1, c2 \in 1..Len(calls) :
    /\ calls[c1].fn = "drift" /\ calls[c2].fn = "greeting"
    /\ Remote(calls[c1]) /\ Remote(calls[c2])
    /\ calls[c1].st = "rejected" /\ calls[c2].st = "rejected"

\* The target function of the call throws when the worker runs it.
ThrowsInWorker(rec) ==
  /\ Resolve(WorkerRegistry, Request(rec.uid, rec.fn, rec.arg)) # ""
  /\ Apply(Resolve(WorkerRegistry, Request(rec.uid, rec.fn, rec.arg)),
           ArgVal(rec.arg)).k = "throw"

\* C10 (as claimed): a call whose target throws in the worker never
\* resolves, and is rejected once its response has been delivered.
C10_ThrowAlwaysRejects ==
  \A c \in 1..Len(calls) :
    Remote(calls[c]) /\ ThrowsInWorker(calls[c]) =>
      /\ calls[c].st # "resolved"
      /\ (Delivered(calls[c]) => calls[c].st = "rejected")

\* The step is a go() call made while the pool holds a worker.
CallsNow == Len(calls') = Len(calls) + 1 /\ pool # <<>>

\* The worker the call of this step chooses is stale and the pool is below
\* its maximum.
StaleBelowMax ==
  /\ now - lastTick[Chosen(uids')] >= StaleAfter
  /\ Len(pool) < maxWorkers

\* C11: a go() call whose chosen worker has not ticked for StaleAfter ms
\* while the pool is below maxWorkers forks one worker and sends nothing
\* yet; when that fork completes, the Call Request of the call goes to the
\* new worker and to no other.  A go() call whose chosen worker ticked less
\* than StaleAfter ms ago, or made with the pool at maxWorkers, forks no
\* worker and sends its request to the chosen worker.
C11_StaleSpawnsAndUsesNew ==
  [][/\ (CallsNow /\ StaleBelowMax =>
           LET c == Len(calls')
           IN  /\ nspawn' = nspawn + 1
               /\ wk'[nspawn'] = Forking("go", c, adapter, workerOptions)
               /\ inbox' = inbox /\ tasks' = tasks
               /\ calls'[c].st = "fork")
     /\ (CallsNow /\ ~StaleBelowMax =>
           LET c == Len(calls')
               ch == Chosen(uids')
           IN  /\ nspawn' = nspawn /\ wk' = wk
               /\ calls'[c].w = ch /\ calls'[c].st = "pending"
               /\ inbox' = [inbox EXCEPT ![ch] =
                              @ \cup {Request(uids', calls'[c].fn, calls'[c].arg)}])
     /\ \A w \in Wids :
          (wk[w].st = "spawning" /\ wk'[w].st = "alive" /\ wk[w].kind = "go") =>
             LET c == wk[w].call
             IN  /\ calls[c].st = "fork"
                 /\ calls'[c].st = "pending" /\ calls'[c].w = w
                 /\ inbox' = [inbox EXCEPT ![w] =
                                @ \cup {Request(calls[c].uid, calls[c].fn, calls[c].arg)}]
    ]_vars

\* C11 witness: a call has been sent to the worker forked for it while the
\* stale worker it had chosen is still alive in the pool, and another call
\* went to a pool worker without a fork.
C11_Witness ==
  \E c, d \in 1..Len(calls) :
    /\ calls[c].st = "pending" /\ calls[c].w # 0
    /\ wk[calls[c].w].kind = "go" /\ wk[calls[c].w].call = c
    /\ \E v \in PoolSet : v # calls[c].w /\ now - lastTick[v] >= StaleAfter
    /\ d # c /\ calls[d].w # 0 /\ wk[calls[d].w].kind = "start"

StaleWorker(w) == now - lastTick[w] >= StaleAfter

\* C12 (as claimed): a go() call made while some worker of the pool has not
\* ticked for StaleAfter ms and the pool is below maxWorkers forks a worker.
C12_AnyStaleSpawns ==
  [][(/\ CallsNow
      /\ \E w \in PoolSet : StaleWorker(w)
      /\ Len(pool) < maxWorkers) => nspawn' = nspawn + 1
    ]_vars

\* C12 (amended): a go() call made while the pool is below maxWorkers forks
\* a worker if every worker of the pool has gone StaleAfter ms without a
\* TICK, and forks none if some worker of the pool ticked more recently.
C12_AllStaleSpawns ==
  [][(CallsNow /\ Len(pool) < maxWorkers) =>
       IF \A w \in PoolSet : StaleWorker(w)
       THEN nspawn' = nspawn + 1
       ELSE nspawn' = nspawn
    ]_vars

\* C12 witness: a fork made by a go() call is in flight while the pool
\* holds two workers, both stale.
C12_Witness ==
  /\ Len(pool) >= 2
  /\ \A v \in PoolSet : StaleWorker(v)
  /\ \E n \in Wids : wk[n].kind = "go" /\ wk[n].st = "spawning"

\* C13: a go() call that forks nothing goes to pool[uid mod pool.length] if
\* the policy is round-robin and the pool has reached maxWorkers, and
\* otherwise (least-time, or round-robin with the pool below maxWorkers) to
\* a worker whose lastTick is the largest in the pool; a call forks only
\* below maxWorkers, where the worker it chose is a most recent one.
C13_ChoiceByPolicy ==
  [][CallsNow =>
       LET c == Len(calls')
           w == calls'[c].w
       IN  IF nspawn' = nspawn
           THEN IF loadBalanceMethod = "round-robin" /\ Len(pool) >= maxWorkers
                THEN w = pool[(uids' % Len(pool)) + 1]
                ELSE /\ w \in PoolSet
                     /\ \A v \in PoolSet : lastTick[v] <= lastTick[w]
           ELSE /\ Len(pool) < maxWorkers
                /\ \A v \in PoolSet : StaleWorker(v)
    ]_vars

\* C13 witness: under round-robin with the pool at maxWorkers the second
\* call went to the second pool worker although the first one ticked more
\* recently.
C13_Witness ==
  /\ loadBalanceMethod = "round-robin" /\ Len(pool) = 2 /\ maxWorkers = 2
  /\ lastTick[pool[1]] > lastTick[pool[2]]
  /\ \E c \in 1..Len(calls) :
       calls[c].uid = 1 /\ calls[c].w = pool[2] /\ calls[c].st = "pending"

\* Round-robin was asked for a dynamic pool that is still below its
\* maximum, and the call with uid 1 went to the first, most recent worker.
C13_WitnessDeferred ==
  /\ loadBalanceMethod = "round-robin" /\ Len(pool) = 2 /\ maxWorkers = 3
  /\ \E c \in 1..Len(calls) :
       calls[c].uid = 1 /\ calls[c].w = pool[1] /\ calls[c].st = "pending"

\* The number of calls c with i <= c <= j that were sent to worker w.
SentTo(w, i, j) == Cardinality({c \in i..j : calls[c].w = w})

\* go.start() made a pool of maxWorkers workers under round-robin, and its
\* membership has not changed since: nothing was terminated, no worker has
\* exited, and every call was made after the start resolved.
SteadyRoundRobin ==
  /\ nstarts = 1 /\ AfterStart /\ terms = <<>>
  /\ loadBalanceMethod = "round-robin"
  /\ Len(pool) = maxWorkers
  /\ \A w \in Wids : wk[w].st \in {"none", "alive"}

\* The calls served on the main side before the pool existed.
LocalCalls == {c \in 1..Len(calls) : calls[c].uid = 0 - 1}

\* C14: under round-robin on a pool of unchanged membership of size
\* N = maxWorkers, the calls dispatched so far took the uids 0, 1, 2, ... in
\* order (a call served locally before the start took none), each went to
\* the pool position after the one of the call before it, and among any k
\* consecutive dispatched calls each pool worker received floor(k/N) or
\* ceil(k/N) of them.
C14_RoundRobinEven ==
  SteadyRoundRobin =>
    LET N == Len(pool)
        L == Cardinality(LocalCalls)
    IN  /\ LocalCalls = 1..L
        /\ \A c \in (L + 1)..Len(calls) :
             /\ calls[c].uid = c - L - 1
             /\ calls[c].w = pool[((c - L - 1) % N) + 1]
        /\ uids = Len(calls) - L - 1
        /\ \A i, j \in (L + 1)..Len(calls) :
             i <= j =>
               \A w \in PoolSet :
                 LET k == j - i + 1
                 IN  /\ SentTo(w, i, j) >= k \div N
                     /\ SentTo(w, i, j) <= (k + N - 1) \div N

\* C14 witness: two workers, two consecutive calls, one call each, and the
\* first call has already been answered.
C14_Witness ==
  /\ SteadyRoundRobin /\ Len(pool) = 2 /\ Len(calls) = 2
  /\ calls[1].w = pool[1] /\ calls[2].w = pool[2]
  /\ calls[1].st = "resolved" /\ calls[2].st = "pending"

\* The step resolves the promise of the first go.start().
StartResolvesNow ==
  nstarts' = 1 /\ startSt.st # "resolved" /\ startSt'.st = "resolved"

\* The workers forked by go.start() itself, as of the end of the step.
StartedWorkers == {w \in Wids : wk'[w].kind = "start"}

\* C15 (as claimed): when go.start(), called on the empty pool, resolves,
\* the pool holds exactly min distinct workers (min = N for workers = N) and
\* maxWorkers is max (N for workers = N).
C15_StartFillsPool ==
  [][StartResolvesNow =>
       /\ Len(pool') = startSt'.min
       /\ Cardinality({pool'[i] : i \in 1..Len(pool')}) = startSt'.min
       /\ maxWorkers' = startSt'.max
    ]_vars

\* C15 (amended): when go.start() resolves, it has forked min distinct
\* workers and each of them has been added to the pool (it is in the pool
\* or has exited since), and maxWorkers is max; the pool holds exactly
\* these workers provided none of them has exited and no go() call has
\* forked a worker meanwhile.
C15_StartAddsItsWorkers ==
  [][StartResolvesNow =>
       /\ Cardinality(StartedWorkers) = startSt'.min
       /\ \A w \in StartedWorkers :
            \/ wk'[w].st = "exited"
            \/ (wk'[w].st = "alive" /\ \E i \in 1..Len(pool') : pool'[i] = w)
       /\ maxWorkers' = startSt'.max
       /\ ((\A w \in Wids : wk'[w].st \in {"none", "alive"} /\ wk'[w].kind # "go")
             => /\ Len(pool') = startSt'.min
                /\ {pool'[i] : i \in 1..Len(pool')} = StartedWorkers)
    ]_vars

\* C15 witness: go.start({workers: [1, 2]}) and go.start({workers: 2}) are
\* told apart here: a start has resolved with two workers in the pool.
C15_Witness ==
  /\ startSt.st = "resolved" /\ startSt.min = 2 /\ maxWorkers = 2
  /\ Len(pool) = 2
  /\ \A w \in PoolSet : wk[w].kind = "start"

DiedSpawning(w) == wk[w].st \in {"exited", "failed"} /\ ~wk[w].ready

\* C17 (as claimed): once a worker has exited without ever becoming ready,
\* the go.start() or go() call that awaited its fork is rejected, and the
\* worker is not in the pool.
C17_EarlyExitRejectsSpawn ==
  \A w \in Wids :
    DiedSpawning(w) =>
      /\ w \notin PoolSet
      /\ (wk[w].kind = "start" => startSt.st = "rejected")
      /\ (wk[w].kind = "go" => calls[wk[w].call].st = "rejected")

\* C18: a go.start() call whose min (N, or the first number of the pair) is
\* below 1 is rejected with a RangeError, forks nothing and leaves the
\* pool, maxWorkers, the policy, the adapter and the cached worker options
\* as they were.
C18_TooFewRejected ==
  [][(nstarts' = nstarts + 1 /\ startSt'.min < 1) =>
       /\ startSt'.st = "rejected" /\ startSt'.err = "RangeError"
       /\ nspawn' = nspawn /\ wk' = wk
       /\ pool' = pool /\ maxWorkers' = maxWorkers
       /\ loadBalanceMethod' = loadBalanceMethod
       /\ workerOptions' = workerOptions
       /\ adapter' = adapter
    ]_vars

\* C18 witness: go.start({workers: [0, 2], method: "round-robin"}) was
\* rejected and the module is as it was loaded.
C18_Witness ==
  /\ startSt.st = "rejected" /\ startSt.err = "RangeError"
  /\ startSt.dyn /\ startSt.min = 0 /\ startSt.max = 2
  /\ startSt.method = "round-robin"
  /\ maxWorkers = 1 /\ loadBalanceMethod = "unset" /\ workerOptions = 0
  /\ pool = <<>> /\ nspawn = 0

\* The last go.start() call got past its argument check.
StartAccepted == nstarts > 0 /\ startSt.err # "RangeError"

C20_UidsDistinct ==
  /\ \A c, d \in 1..Len(calls) :
       (c < d /\ calls[c].uid >= 0 /\ calls[d].uid >= 0) =>
          calls[c].uid < calls[d].uid
  /\ \A c \in 1..Len(calls) : calls[c].uid <= uids
  /\ \A t, u \in tasks : t[1] = u[1] => t = u
  /\ \A c \in 1..Len(calls) :
       calls[c].st = "pending" => <<calls[c].uid, c>> \in tasks

\* C20 witness: the first call took uid 0 and is still waiting for the
\* worker forked for it, while the second call, made later with uid 1, has
\* been dispatched and is pending under its own uid.
C20_Witness ==
  /\ Len(calls) = 2
  /\ calls[1].uid = 0 /\ calls[1].st = "fork"
  /\ calls[2].uid = 1 /\ calls[2].st = "pending"
  /\ tasks = {<<1, 2>>}

\* C25: the warning has been emitted once if some go() call found the pool
\* empty and not at all otherwise, however many calls were served locally
\* and whatever start and terminate calls lie between them.
C25_WarningOnce ==
  /\ warnings = (IF LocalCalls # {} THEN 1 ELSE 0)
  /\ noWorkerWarningEmitted = (LocalCalls # {})

\* C25 witness: two calls were served locally, the pool was started and
\* terminated, and one warning has been emitted.
C25_Witness ==
  /\ Cardinality(LocalCalls) = 2
  /\ startSt.st = "resolved" /\ terms # <<>> /\ pool = <<>>
  /\ \E w \in Wids : wk[w].st = "exited" /\ wk[w].killed
  /\ warnings = 1

\* C21: go.register(fn) of a function returns fn and leaves the registry as
\* it was when fn is already in it, and otherwise appends fn at the end; no
\* step removes or moves a registry entry, and no function is in it twice.
C21_RegisterIdempotent ==
  [][/\ Len(registry') >= Len(registry)
     /\ \A i \in 1..Len(registry) : registry'[i] = registry[i]
     /\ \A i, j \in 1..Len(registry') : registry'[i] = registry'[j] => i = j
     /\ (ret' # ret /\ ret'.op = "register" /\ ret'.k = "ok") =>
          /\ ret'.val = ret'.arg
          /\ registry' = IF \E i \in 1..Len(registry) : registry[i] = ret'.arg
                         THEN registry ELSE Append(registry, ret'.arg)]_vars

\* a function registered again after another one was registered behind it
C21_Witness ==
  /\ ~collected /\ Len(registry) = 2
  /\ ret.op = "register" /\ ret.k = "ok" /\ ret.arg = registry[1]

\* C22: once a scheduler tick has passed since go.use() recorded a root,
\* every function the root exports is in the registry.
C22_UsedRootsWalked ==
  \A root \in ticked :
    \A i \in 1..Len(Collectable(root)) :
      \E j \in 1..Len(registry) : registry[j] = Collectable(root)[i]

NotFunctions == {"klass", "num", "obj", "undef"}
GivenType(fn) ==
  CASE fn = "klass" -> "class"
    [] fn = "num" -> "number"
    [] fn = "obj" -> "object"
    [] OTHER -> "undefined"

\* C23: go.register(x) and go(x) of a non-function or a class fail with the
\* TypeError "<name>() requires a function, <type> is given" and change
\* nothing: not the registry, the uid stream, the pending table or the pool,
\* and no message is sent; no such thing is ever in the registry.
C23_NonFunctionRejected ==
  [][/\ (ret' # ret /\ ret'.op = "register" /\ ret'.arg \in NotFunctions) =>
          /\ ret'.k = "throw"
          /\ ret'.val = "register() requires a function, "
                          \o GivenType(ret'.arg) \o " is given"
          /\ UNCHANGED <<registry, uids, tasks, pool, inbox, wk, nspawn>>
     /\ (Len(calls') = Len(calls) + 1 /\ calls'[Len(calls')].fn \in NotFunctions) =>
          LET rec == calls'[Len(calls')]
          IN  /\ rec.st = "rejected"
              /\ rec.out = Val("TypeError", "go() requires a function, "
                                             \o GivenType(rec.fn) \o " is given")
              /\ UNCHANGED <<registry, uids, tasks, pool, inbox, wk, nspawn,
                             warnings>>
     /\ \A i \in 1..Len(registry') : registry'[i] \notin NotFunctions]_vars

\* a class refused by go() on a started pool, then refused by go.register()
C23_Witness ==
  /\ pool # <<>>
  /\ \E c \in 1..Len(calls) :
       calls[c].fn = "klass" /\ calls[c].st = "rejected" /\ calls[c].out.t = "TypeError"
  /\ ret.op = "register" /\ ret.arg = "klass" /\ ret.k = "throw"
  /\ \E i \in 1..Len(includes) : includes[i] = "modA"
  /\ collected

\* C26: every worker forked with one cached options object was given the
\* same execArgv, and no spawn has added anything to the cached array.
C26_SameOptionsEverySpawn ==
  /\ \A id \in OptIds : execArgv[id] = 0
  /\ \A v, w \in Wids :
       (wk[v].argv >= 0 /\ wk[w].argv >= 0 /\ wk[v].opts = wk[w].opts) =>
         wk[v].argv = wk[w].argv

\* The step is a call of go(), go.start() or go.terminate() made inside a
\* worker, it fails in the way `how` with the Error "Calling <name>() in the
\* worker thread is not allowed", and it does nothing else: no worker is
\* spawned or terminated, no uid is taken, no pending entry is made and no
\* message is sent, on either side.
MisuseFails(how) ==
  \A w \in Wids :
    (Len(wcalls'[w]) = Len(wcalls[w]) + 1
       /\ wcalls'[w][Len(wcalls'[w])].op \in {"go", "go.start", "go.terminate"}) =>
      LET rec == wcalls'[w][Len(wcalls'[w])]
      IN  /\ rec.st = how
          /\ rec.out = Val("Error", "Calling " \o rec.op
                                       \o "() in the worker thread is not allowed")
          /\ UNCHANGED <<wuids, wtasks, outbox, inbox, replies, uids, tasks, pool,
                         wk, nspawn, startSt, terms>>

\* C24 as stated: the call throws synchronously.
C24_MisuseThrows == [][MisuseFails("threw")]_vars

\* C24: go(), go.start() and go.terminate() called inside a worker return a
\* promise that is already rejected with the Error "Calling <name>() in the
\* worker thread is not allowed", before any other effect.
C24_MisuseRejected == [][MisuseFails("rejected")]_vars

\* one worker of a pool of two has called go.start() and then go()
C24_Witness ==
  /\ Len(pool) = 2
  /\ \E w \in Wids :
       /\ Len(wcalls[w]) = 2
       /\ wcalls[w][1].op = "go.start" /\ wcalls[w][2].op = "go"
       /\ wcalls[w][2].st = "rejected"

\* C27: go.workers() on the main side gives the pool length and changes
\* nothing.  Called inside a worker it takes the worker's next uid, makes a
\* pending entry and sends one Call Request for the pool-length literal;
\* when the parent takes that request off the channel it appends one Call
\* Response with the request's uid and the pool length of that moment to
\* the channel of the requesting worker (reachable by the method the
\* module flag selects) and to no other; and when the worker takes the
\* response, the pending entry of that uid goes and its call resolves to
\* the number carried.
C27_WorkersCount ==
  [][/\ (ret' # ret /\ ret'.op = "go.workers") =>
          /\ ret'.k = "ok" /\ ret'.val = ToString(Len(pool))
          /\ UNCHANGED <<pool, uids, tasks, inbox, outbox, replies>>
     /\ \A w \in Wids :
          /\ (Len(wcalls'[w]) = Len(wcalls[w]) + 1
                 /\ wcalls'[w][Len(wcalls'[w])].op = "go.workers") =>
               LET rec == wcalls'[w][Len(wcalls'[w])]
               IN  /\ rec.st = "pending" /\ rec.uid = wuids[w] + 1
                   /\ wuids'[w] = rec.uid
                   /\ wtasks'[w] = wtasks[w] \cup {rec.uid}
                   /\ Len(outbox'[w]) = Len(outbox[w]) + 1
                   /\ outbox'[w][Len(outbox'[w])].uid = rec.uid
                   /\ outbox'[w][Len(outbox'[w])].text = "() => pool.length"
                   /\ \A v \in Wids \ {w} : outbox'[v] = outbox[v]
          /\ (outbox[w] # <<>> /\ outbox'[w] = Tail(outbox[w])
                 /\ "text" \in DOMAIN Head(outbox[w])
                 /\ wk[w].st = "alive" /\ CanPost(w)) =>
               /\ replies'[w] = Append(replies[w],
                    [uid |-> Head(outbox[w]).uid,
                     err |-> [t |-> "null", c |-> "", v |-> ""],
                     result |-> [t |-> "number", c |-> "", v |-> ToString(Len(pool))]])
               /\ \A v \in Wids \ {w} : replies'[v] = replies[v]
               /\ UNCHANGED <<tasks, calls, pool>>
          /\ (replies[w] # <<>> /\ replies'[w] = Tail(replies[w])
                 /\ Head(replies[w]).uid \in wtasks[w]) =>
               LET m == Head(replies[w])
               IN  /\ wtasks'[w] = wtasks[w] \ {m.uid}
                   /\ \A i \in 1..Len(wcalls[w]) :
                        wcalls'[w][i] =
                          IF wcalls[w][i].uid = m.uid
                          THEN [wcalls[w][i] EXCEPT !.st = "resolved",
                                                    !.out = Val("number", m.result.v)]
                          ELSE wcalls[w][i]
                   /\ \A v \in Wids \ {w} : wcalls'[v] = wcalls[v] /\ wtasks'[v] = wtasks[v]
          /\ Len(replies'[w]) > Len(replies[w]) =>
               outbox[w] # <<>> /\ "text" \in DOMAIN Head(outbox[w])]_vars

\* a worker was told 1 while the pool has grown to 2 since; the other worker
\* is still waiting for its answer; the main side has just been told 2
C27_Witness ==
  /\ Len(pool) = 2
  /\ ret.op = "go.workers" /\ ret.val = "2"
  /\ \E v, w \in Wids :
       /\ v # w
       /\ Len(wcalls[w]) = 1 /\ wcalls[w][1].st = "resolved"
       /\ wcalls[w][1].out = Val("number", "1")
       /\ Len(wcalls[v]) = 1 /\ wcalls[v][1].st = "pending" /\ wtasks[v] = {0}

\* The Call Response owed to Call Request r by a process that runs it with
\* outcome res, as it comes out of transport ad.
Owed(ad, r, res) ==
  LET native == ad = "worker_threads" /\ nativeErrorCloneSupport
      null == [t |-> "null", c |-> "", v |-> ""]
  IN  IF res.k = "ok"
      THEN [uid |-> r.uid, err |-> null,
            result |-> Transmit(ad, compose(res.val, native))]
      ELSE [uid |-> r.uid, err |-> Transmit(ad, compose(res.val, native)),
            result |-> null]

\* C30: a worker that finishes a Call Request sends exactly one Call
\* Response, with the uid of the request, [uid, null, result] when the
\* target returned and [uid, error, null] when it threw (or could not be
\* resolved); the parent does the same for a request of a worker that it can
\* reach; and no Call Response is sent in any other step.
C30_OneResponsePerRequest ==
  [][\A w \in Wids :
       /\ inbox'[w] # inbox[w] /\ inbox'[w] \subseteq inbox[w] =>
            \E r \in inbox[w] :
              /\ inbox'[w] = inbox[w] \ {r}
              /\ LET fn == Resolve(WorkerRegistry, r)
                     res == IF fn = ""
                            THEN [k |-> "throw", val |-> Val("Error", MalformedMsg)]
                            ELSE IF r.target = 0 /\ ~Evaluable(r.text) THEN EvalFailure
                            ELSE Apply(fn, decompose(r.args))
                 IN  outbox'[w] = Append(outbox[w], Owed(wk[w].ad, r, res))
       /\ (Len(outbox'[w]) > Len(outbox[w])
             /\ "err" \in DOMAIN outbox'[w][Len(outbox'[w])]) =>
            /\ Len(outbox'[w]) = Len(outbox[w]) + 1
            /\ inbox'[w] # inbox[w] /\ inbox'[w] \subseteq inbox[w]
       /\ (outbox[w] # <<>> /\ outbox'[w] = Tail(outbox[w])
              /\ "text" \in DOMAIN Head(outbox[w])
              /\ wk[w].st = "alive" /\ CanPost(w)) =>
            replies'[w] = Append(replies[w],
              Owed(wk[w].ad, Head(outbox[w]),
                   [k |-> "ok", val |-> Val("number", ToString(Len(pool)))]))
       /\ Len(replies'[w]) > Len(replies[w]) =>
            /\ Len(replies'[w]) = Len(replies[w]) + 1
            /\ outbox[w] # <<>> /\ outbox'[w] = Tail(outbox[w])
            /\ "text" \in DOMAIN Head(outbox[w])]_vars

\* a success and a failure have been answered by workers and taken by the
\* main side, and the parent has answered a worker
C30_Witness ==
  /\ \E c, d \in 1..Len(calls) :
       /\ calls[c].fn = "sum" /\ calls[c].st = "resolved" /\ calls[c].w # 0
       /\ calls[d].fn = "throwError" /\ calls[d].st = "rejected" /\ calls[d].w # 0
  /\ \E w \in Wids : replies[w] # <<>> /\ Head(replies[w]).uid = 0

\* The calls that went to a worker with a value and came back.
Echoed == {c \in 1..Len(calls) : /\ calls[c].fn = "echo" /\ calls[c].arg # "cyclic"
                                 /\ calls[c].uid >= 0 /\ calls[c].w # 0
                                 /\ calls[c].st \in {"resolved", "rejected"}}

\* x is structurally equal to v and of the same type; a Buffer is a typed
\* array of the Uint8Array kind.
SameValue(x, v) ==
  \/ x = v
  \/ x.t = "Uint8Array" /\ v.t = "Buffer" /\ x.v = v.v

C29_CycleDropped ==
  \A c \in 1..Len(calls) :
    (/\ calls[c].fn = "transferCircular" \/ calls[c].arg = "cyclic"
     /\ calls[c].uid >= 0 /\ calls[c].w # 0
     /\ calls[c].st \in {"resolved", "rejected"}) =>
      calls[c].st = "resolved" /\ calls[c].out = Val("object", "Hello, World")

\* a cyclic result and a cyclic argument have both arrived
C29_Witness ==
  \E c, d \in 1..Len(calls) :
    /\ calls[c].fn = "transferCircular" /\ calls[c].st = "resolved" /\ calls[c].w # 0
    /\ calls[d].fn = "echo" /\ calls[d].arg = "cyclic"
    /\ calls[d].st = "resolved" /\ calls[d].w # 0

\* C40 (as claimed): a go.terminate() call made while the pool is empty,
\* before any go.start() or after an earlier terminate has drained the
\* pool, resolves without error.
C40_EmptyTerminateResolves ==
  \A i \in 1..Len(terms) : terms[i].ws = {} => terms[i].st = "resolved"

\* The pool p with worker w taken out, the others in their order.
Without(p, w) == SelectSeq(p, LAMBDA x : x # w)

Joins(w) == w \notin PoolSet /\ w \in {pool'[i] : i \in 1..Len(pool')}

\* C33: every worker in the pool has a tick time, given to it by the step
\* that added it to the pool; afterwards the tick time of a worker changes
\* only in a step that processes a TICK of that worker (a step that touches
\* neither the pool, the calls nor the channels, and no other worker's tick
\* time), and it never decreases.
C33_LastTickOwnTickOnly ==
  [][ \A w \in Wids :
        /\ Joins(w) => lastTick'[w] = now
        /\ lastTick'[w] >= lastTick[w]
        /\ (lastTick'[w] # lastTick[w] /\ ~Joins(w)) =>
             /\ wk[w].st = "alive" /\ wk[w].ready
             /\ lastTick'[w] = now
             /\ \A v \in Wids \ {w} : lastTick'[v] = lastTick[v]
             /\ UNCHANGED <<pool, callVars, chanVars, workVars>> ]_vars

\* C33 witness: two workers are in the pool with different tick times, and
\* a Call Response of the one with the older tick time has been processed.
C33_Witness ==
  \E v, w \in PoolSet :
    /\ v # w
    /\ lastTick[v] > lastTick[w]
    /\ \E c \in 1..Len(calls) : calls[c].w = w /\ calls[c].st = "resolved"

\* The error a worker raises while its entry file loads.
SpawnFailure == Val("Error", "worker error")

\* Some request of call record rec is on its way to a worker.
InFlight(rec) == \E w \in Wids : \E r \in inbox[w] : r.uid = rec.uid

\* C36: in the step in which the spawn a go() call awaits fails, the call
\* rejects with the error of the spawn; no pending entry exists for the
\* call, none of its requests is on its way to a worker, and the step
\* leaves the pool, the tick times, the pending table and the channels as
\* they were.
C36_SpawnFailureRejects ==
  [][ \A w \in Wids :
        (wk[w].st = "spawning" /\ wk'[w].st = "failed" /\ wk[w].kind = "go") =>
          LET c == wk[w].call
          IN  /\ calls[c].st = "fork"
              /\ calls'[c] = [calls[c] EXCEPT !.st = "rejected", !.out = SpawnFailure]
              /\ calls'[c].w = 0
              /\ \A t \in tasks' : t[2] # c
              /\ ~InFlight(calls[c])
              /\ UNCHANGED <<pool, lastTick, tasks, inbox, outbox>> ]_vars

\* C36 witness: a call made on a pool whose only worker was stale awaited a
\* spawn that failed; the call has rejected with the spawn's error and the
\* pool still holds the stale worker alone.
C36_Witness ==
  \E c \in 1..Len(calls) :
    /\ calls[c].uid >= 0 /\ calls[c].st = "rejected" /\ calls[c].out = SpawnFailure
    /\ Len(pool) = 1 /\ wk[pool[1]].st = "alive"
    /\ \E w \in Wids : wk[w].st = "failed" /\ wk[w].kind = "go" /\ wk[w].call = c

\* The step takes the next message of worker w off the main side's channel.
Receives(w) == outbox[w] # <<>> /\ outbox'[w] = Tail(outbox[w])

\* C38: a call that has settled never changes again; the step that
\* processes a Call Response whose uid has a pending entry removes that
\* entry and settles the call of the entry, and no other; the step that
\* processes a Call Response whose uid has no pending entry (a duplicate, or
\* a uid never drawn) leaves the pending table, the calls, the pool and the
\* tick times as they were and sends nothing.
C38_SettledAtMostOnce ==
  [][ /\ \A c \in 1..Len(calls) : Settled(calls[c]) => calls'[c] = calls[c]
      /\ \A w \in Wids :
           (Receives(w) /\ isCallResponse(Head(outbox[w]))) =>
             LET m == Head(outbox[w])
                 ts == TasksGet(m.uid)
             IN  /\ UNCHANGED <<pool, lastTick, replies, inbox>>
                 /\ IF ts = {}
                    THEN UNCHANGED <<tasks, calls>>
                    ELSE /\ tasks' = tasks \ ts
                         /\ \A c \in 1..Len(calls) :
                              IF \E t \in ts : t[2] = c
                              THEN calls[c].st = "pending" => Settled(calls'[c])
                              ELSE calls'[c] = calls[c] ]_vars

\* C38 witness: a call was settled by a surplus response carrying its uid,
\* the worker's own response to it arrived afterwards and has been
\* processed, and the call still has the outcome of the first.
C38_Witness ==
  \E c \in 1..Len(calls) :
    /\ Remote(calls[c]) /\ calls[c].st = "resolved"
    /\ calls[c].out = Val("string", "late")
    /\ calls[c].fn = "sum"
    /\ \A r \in inbox[calls[c].w] : r.uid # calls[c].uid
    /\ outbox[calls[c].w] = <<>>
    /\ <<calls[c].uid, "sum">> \in invoked

\* The step takes the next message off the port of worker w.
PortReceives(w) == replies[w] # <<>> /\ replies'[w] = Tail(replies[w])

\* A message that is neither "TICK", nor an array of length 4 with a
\* numeric uid, a numeric signature and an array of arguments, nor an array
\* of length 3 with a numeric uid and an object or null in the error slot.
Unrecognised(m) ==
  \/ "tok" \in DOMAIN m /\ m.tok # "TICK"
  \/ DOMAIN m = {"uid"}
  \/ DOMAIN m = {"uid", "err", "result"} /\ TypeOf(m.err) # "object"

\* C32: the step in which either side takes a message that is neither
\* TICK, a Call Request nor a Call Response ("READY" included) off its
\* channel changes neither the pool, the tick times nor the pending table
\* of either side, settles no call, sends nothing in either direction and
\* leaves the worker and its listener as they were.
C32_UnknownMessageDropped ==
  [][ \A w \in Wids :
        /\ (Receives(w) /\ Unrecognised(Head(outbox[w]))) =>
             UNCHANGED <<pool, lastTick, tasks, calls, replies, inbox, wk,
                         wtasks, wcalls>>
        /\ (PortReceives(w) /\ Unrecognised(Head(replies[w]))) =>
             UNCHANGED <<pool, lastTick, tasks, calls, outbox, inbox, wk,
                         wtasks, wcalls>> ]_vars

\* C32 witness: the response to a call whose function threw a string was
\* taken off the channel and dropped (the call is still pending with
\* nothing on its way), a READY string waits behind it on the same
\* listener, and a later call to the same worker has been answered and
\* resolved.
C32_Witness ==
  \E c, d \in 1..Len(calls) :
    /\ c < d /\ Remote(calls[c]) /\ calls[d].w = calls[c].w
    /\ calls[c].fn = "throwString" /\ calls[c].st = "pending"
    /\ <<calls[c].uid, "throwString">> \in invoked
    /\ calls[d].fn = "sum" /\ calls[d].st = "resolved"
    /\ calls[d].out # Val("string", "late")
    /\ outbox[calls[c].w] = <<[tok |-> "READY"]>>
    /\ replies[calls[c].w] = <<[tok |-> "hello"]>>

\* The call's function is not in the registry of the main side, so its
\* Call Request carries the source text.
BySource(rec) == Remote(rec) /\ IndexOf(registry, rec.fn) = 0

\* C35: a call whose target is source text is answered from the text alone,
\* whatever the registry of the receiving side holds: when the text
\* evaluates to a function the call settles with the outcome of that
\* function, and when the evaluation fails the Call Response with the
\* request's uid carries the failure in its error slot and the call
\* rejects with it.
C35_SourceTextEvaluated ==
  /\ \A c \in 1..Len(calls) :
       (BySource(calls[c]) /\ Settled(calls[c])) =>
         IF Evaluable(calls[c].fn)
         THEN /\ calls[c].st = "resolved"
              /\ calls[c].out = Apply(calls[c].fn, ArgVal(calls[c].arg)).val
         ELSE /\ calls[c].st = "rejected"
              /\ calls[c].out = EvalFailure.val
  /\ \A c \in 1..Len(calls) : \A w \in Wids : \A i \in 1..Len(outbox[w]) :
       (BySource(calls[c]) /\ outbox[w][i].uid = calls[c].uid) =>
         /\ w = calls[c].w
         /\ Truthy(outbox[w][i].err) <=> ~Evaluable(calls[c].fn)
         /\ ~Evaluable(calls[c].fn) => decompose(outbox[w][i].err) = EvalFailure.val

\* C35 witness: a call of a built-in function has rejected with the error
\* of the evaluation, and a call of an unregistered function literal to the
\* same worker has resolved.
C35_Witness ==
  \E c, d \in 1..Len(calls) :
    /\ BySource(calls[c]) /\ calls[c].fn = "mathMax" /\ calls[c].st = "rejected"
    /\ BySource(calls[d]) /\ calls[d].fn = "literal" /\ calls[d].st = "resolved"
    /\ calls[c].w = calls[d].w

\* The spawn that call c awaited has failed.
SpawnFailed(c) ==
  \E w \in Wids : wk[w].kind = "go" /\ wk[w].call = c /\ wk[w].st = "failed"

\* The workers that were handed the Call Request of call record rec: those
\* that still hold it, have run it, or have answered it.
HandedTo(rec) ==
  {w \in Wids :
     \/ \E r \in inbox[w] : r.uid = rec.uid
     \/ \E i \in 1..Len(outbox[w]) : outbox[w][i].uid = rec.uid
     \/ (rec.w = w /\ <<rec.uid, rec.fn>> \in invoked)
     \/ (rec.w = w /\ Settled(rec))}

\* C31 (as claimed): every go() call made while the pool was not empty,
\* once it waits for no spawn (and no spawn it awaited has failed), has had
\* its Call Request sent to exactly one worker: it was not served on the
\* main side, not dropped and not put aside.
C31_EveryCallSent ==
  \A c \in 1..Len(calls) :
    (calls[c].uid >= 0 /\ calls[c].st # "fork" /\ ~SpawnFailed(c)) =>
      /\ calls[c].w \in Wids
      /\ HandedTo(calls[c]) = {calls[c].w}

\* C37 (as claimed): every pending entry belongs to a call whose Call
\* Request has been sent, and for every Call Request or Call Response on
\* its way the call is either still in the pending table or already
\* settled.
C37_PendingEntrySent ==
  /\ \A t \in tasks : calls[t[2]].w \in Wids /\ calls[t[2]].st = "pending"
  /\ \A c \in 1..Len(calls) :
       (calls[c].uid >= 0 /\ HandedTo(calls[c]) # {}) =>
         (Settled(calls[c]) \/ <<calls[c].uid, c>> \in tasks)

\* The event loop of worker w is running.
Running(w) == rt[w].phase \in {"timers", "check"}

\* The times of the clock of SpecRuntime.
Times == {t \in 0..(MaxTime * (StaleAfter \div 2)) : t % TickEvery = 0}

====
